---- MODULE Spec2Model ----
(***************************************************************************)
(* GPSTrack: serial acquisition of NMEA sentences, decoding into a fix     *)
(* record, relay over UDP, and the GPSSim pseudo-terminal simulator.       *)
(*                                                                         *)
(* Two generations of the acquisition class exist in the sources           *)
(* (GPSTrack and TrackSense); both are modelled, selected by wvariant.     *)
(*                                                                         *)
(* Text is a sequence of one-character strings.  Decimal numbers are       *)
(* fixed-point integers: field values in units of 1e-4 (NMEA fields carry  *)
(* at most four decimals), decoded coordinates in units of 1e-6 degree     *)
(* (the precision both classes print).                                     *)
(***************************************************************************)
EXTENDS Integers, Sequences, FiniteSets, TLC

(***************************************************************************)
(* Characters and numbers                                                  *)
(***************************************************************************)
DigitChars == <<"0","1","2","3","4","5","6","7","8","9">>

IsDigit(c) == \E i \in 1..10 : DigitChars[i] = c

DigitVal(c) == (CHOOSE i \in 1..10 : DigitChars[i] = c) - 1

RECURSIVE Pow10(_)
Pow10(n) == IF n = 0 THEN 1 ELSE 10 * Pow10(n - 1)

\* Field values: 1e-4.  Decoded degrees: 1e-6.
FieldUnit == Pow10(4)
DegUnit == Pow10(6)

\* Division rounding to nearest, for non-negative a and positive b.
RoundDiv(a, b) == (2 * a + b) \div (2 * b)

\* Number of consecutive digits of s from position i on.
RECURSIVE DigitRun(_, _)
DigitRun(s, i) ==
    IF i <= Len(s) /\ IsDigit(s[i]) THEN 1 + DigitRun(s, i + 1) ELSE 0

\* Number of consecutive blanks of s from position i on.
RECURSIVE BlankRun(_, _)
BlankRun(s, i) ==
    IF i <= Len(s) /\ s[i] = " " THEN 1 + BlankRun(s, i + 1) ELSE 0

\* Value of the n digits of s that start at position i.
RECURSIVE DigitsValue(_, _, _)
DigitsValue(s, i, n) ==
    IF n = 0 THEN 0
    ELSE DigitsValue(s, i, n - 1) * 10 + DigitVal(s[i + n - 1])

\* Decimal text of a natural number.
RECURSIVE NatText(_)
NatText(n) ==
    IF n < 10 THEN <<DigitChars[n + 1]>>
    ELSE NatText(n \div 10) \o <<DigitChars[(n % 10) + 1]>>

\* std::setw(w) << std::setfill('0'): pad on the left up to width w.
RECURSIVE PadLeft(_, _)
PadLeft(t, w) == IF Len(t) >= w THEN t ELSE PadLeft(<<"0">> \o t, w)

\* "%f"-style text of a magnitude given in units of 10^-d, printed with
\* exactly d fractional digits.
FixedText(mag, d) ==
    NatText(mag \div Pow10(d)) \o <<".">> \o PadLeft(NatText(mag % Pow10(d)), d)

(***************************************************************************)
(* std::stod / std::stoi.  The result is a record: st is "ok",             *)
(* "invalid_argument" (no conversion could be performed) or "out_of_range" *)
(* (the value does not fit a double / an int); val is the value in units   *)
(* of 1e-4 (stod) or the integer (stoi).  Trailing text after the longest  *)
(* numeric prefix is ignored, as strtod does.                              *)
(***************************************************************************)
MaxDoubleExp == 308

\* The stages of the conversion, last first.  neg: the sign; ni, nf: the
\* numbers of digits before and after the point; mant: the mantissa in
\* units of 1e-4; ex, eneg: the exponent and its sign.
stod_valor(neg, ni, nf, mant, ex, eneg) ==
    IF ni + nf = 0 THEN [st |-> "invalid_argument", val |-> 0]
    ELSE IF mant # 0 /\ ~eneg /\ ex + ni > MaxDoubleExp
         THEN [st |-> "out_of_range", val |-> 0]
    ELSE IF mant # 0 /\ eneg /\ ex - ni >= MaxDoubleExp
         THEN [st |-> "out_of_range", val |-> 0]
    ELSE IF ex = 0 THEN [st |-> "ok", val |-> IF neg THEN 0 - mant ELSE mant]
    ELSE IF eneg /\ ex > 9 THEN [st |-> "ok", val |-> 0]
    ELSE IF eneg THEN [st |-> "ok", val |-> IF neg THEN 0 - (mant \div Pow10(ex))
                                            ELSE mant \div Pow10(ex)]
    ELSE [st |-> "ok", val |-> IF neg THEN 0 - mant * Pow10(ex) ELSE mant * Pow10(ex)]

\* pd: where the digits of the exponent start; ne: how many they are.
\* A magnitude of 100000 or more (no field of a sentence reaches it) is
\* kept as 100000.
stod_expoente(s, neg, p1, ni, nf, pd, ne, eneg) ==
    stod_valor(neg, ni, nf,
               (IF ni > 5 THEN Pow10(5) ELSE DigitsValue(s, p1, ni)) * FieldUnit
                   + DigitsValue(s, p1 + ni + 1, IF nf > 4 THEN 4 ELSE nf)
                       * Pow10(4 - (IF nf > 4 THEN 4 ELSE nf)),
               IF ne = 0 THEN 0
               ELSE IF ne > 4 THEN MaxDoubleExp + 1
               ELSE DigitsValue(s, pd, ne),
               eneg)

\* pe: the position after the mantissa, where an exponent may start.
stod_mantissa(s, neg, p1, ni, nf, pe) ==
    stod_expoente(s, neg, p1, ni, nf,
                  IF pe + 1 <= Len(s) /\ s[pe + 1] \in {"+", "-"} THEN pe + 2 ELSE pe + 1,
                  IF pe <= Len(s) /\ s[pe] \in {"e", "E"}
                  THEN DigitRun(s, IF pe + 1 <= Len(s) /\ s[pe + 1] \in {"+", "-"}
                                   THEN pe + 2 ELSE pe + 1)
                  ELSE 0,
                  pe + 1 <= Len(s) /\ s[pe + 1] = "-")

stod_fracao(s, neg, p1, ni, nf) ==
    stod_mantissa(s, neg, p1, ni, nf,
                  IF p1 + ni <= Len(s) /\ s[p1 + ni] = "." THEN p1 + ni + 1 + nf
                  ELSE p1 + ni)

stod_inteiro(s, neg, p1, ni) ==
    stod_fracao(s, neg, p1, ni,
                IF p1 + ni <= Len(s) /\ s[p1 + ni] = "."
                THEN DigitRun(s, p1 + ni + 1) ELSE 0)

\* p0: the position after the leading blanks.
stod_sinal(s, p0) ==
    stod_inteiro(s, p0 <= Len(s) /\ s[p0] = "-",
                 IF p0 <= Len(s) /\ s[p0] \in {"+", "-"} THEN p0 + 1 ELSE p0,
                 DigitRun(s, IF p0 <= Len(s) /\ s[p0] \in {"+", "-"} THEN p0 + 1 ELSE p0))

stod(s) == stod_sinal(s, 1 + BlankRun(s, 1))

stoi_valor(neg, ni, valor) ==
    IF ni = 0 THEN [st |-> "invalid_argument", val |-> 0]
    ELSE IF ni > 9 THEN [st |-> "out_of_range", val |-> 0]
    ELSE [st |-> "ok", val |-> IF neg THEN 0 - valor ELSE valor]

stoi_digitos(s, neg, p1, ni) ==
    stoi_valor(neg, ni, IF ni > 9 THEN 0 ELSE DigitsValue(s, p1, ni))

stoi_sinal(s, p0) ==
    stoi_digitos(s, p0 <= Len(s) /\ s[p0] = "-",
                 IF p0 <= Len(s) /\ s[p0] \in {"+", "-"} THEN p0 + 1 ELSE p0,
                 DigitRun(s, IF p0 <= Len(s) /\ s[p0] \in {"+", "-"} THEN p0 + 1 ELSE p0))

stoi(s) == stoi_sinal(s, 1 + BlankRun(s, 1))

(***************************************************************************)
(* std::string::find(pat) != npos                                          *)
(***************************************************************************)
find(s, pat) ==
    \E i \in 1..(Len(s) - Len(pat) + 1) : SubSeq(s, i, i + Len(pat) - 1) = pat

(***************************************************************************)
(* split: successive std::getline(ss, elemento, separador) calls; an       *)
(* element is kept only when it is not empty.                              *)
(***************************************************************************)
\* The elements std::getline yields: the text between separators; the
\* stream fails (the loop ends) when nothing is left to extract, so text
\* ending in a separator yields no final empty element.
getline(s, separador) ==
    LET EhSeparador(i) == s[i] = separador
        cortes == SelectSeq([i \in 1..Len(s) |-> i], EhSeparador)
        n      == Len(cortes)
        De(k)  == IF k = 1 THEN 1 ELSE cortes[k - 1] + 1
        Ate(k) == IF k = n + 1 THEN Len(s) ELSE cortes[k] - 1
        ultimo == IF De(n + 1) > Len(s) THEN n ELSE n + 1
    IN  [k \in 1..ultimo |-> SubSeq(s, De(k), Ate(k))]

NaoVazio(elemento_individual) == elemento_individual # <<>>

split(string_de_entrada, separador) ==
    SelectSeq(getline(string_de_entrada, separador), NaoVazio)

(***************************************************************************)
(* Sentences the receiver may put on the serial line (without CR LF).      *)
(***************************************************************************)
\* a fix-data sentence (the example of the NMEA standard)
\*   $GPGGA,123519,4807.038,N,01131.000,E,1,08,0.9,545.4,M,46.9,M,,*47
F_GGA ==
    <<"$","G","P","G","G","A",",","1","2","3","5","1","9",",","4","8","0","7",".","0","3","8",",","N",",","0","1","1","3","1",".","0","0","0",",","E",",","1",",","0","8",",","0",".","9",",","5","4","5",".","4",",","M",",","4","6",".","9",",","M",",",",","*","4","7">>

\* a minimum-navigation sentence
\*   $GPRMC,123519,A,4807.038,N,01131.000,E,022.4,084.4,230394,003.1,W*6A
F_RMC ==
    <<"$","G","P","R","M","C",",","1","2","3","5","1","9",",","A",",","4","8","0","7",".","0","3","8",",","N",",","0","1","1","3","1",".","0","0","0",",","E",",","0","2","2",".","4",",","0","8","4",".","4",",","2","3","0","3","9","4",",","0","0","3",".","1",",","W","*","6","A">>

\* the informative text the receiver sends after power-up
\*   $GPTXT,01,01,02,ANTSTATUS=OK*3B
F_TXT ==
    <<"$","G","P","T","X","T",",","0","1",",","0","1",",","0","2",",","A","N","T","S","T","A","T","U","S","=","O","K","*","3","B">>

\* fix-data with a non-numeric latitude
\*   $GPGGA,123519,abc,N,01131.000,E,1,08,0.9,545.4,M,46.9,M,,*47
F_GGA_NAN ==
    <<"$","G","P","G","G","A",",","1","2","3","5","1","9",",","a","b","c",",","N",",","0","1","1","3","1",".","0","0","0",",","E",",","1",",","0","8",",","0",".","9",",","5","4","5",".","4",",","M",",","4","6",".","9",",","M",",",",","*","4","7">>

\* minimum-navigation with a non-numeric speed
\*   $GPRMC,123519,A,4807.038,N,01131.000,E,x,084.4,230394,003.1,W*6A
F_RMC_NAN ==
    <<"$","G","P","R","M","C",",","1","2","3","5","1","9",",","A",",","4","8","0","7",".","0","3","8",",","N",",","0","1","1","3","1",".","0","0","0",",","E",",","x",",","0","8","4",".","4",",","2","3","0","3","9","4",",","0","0","3",".","1",",","W","*","6","A">>

\* fix-data as the receiver sends it before it has a fix
\*   $GPGGA,,,,,,0,00,99.99,,,,,,*48
F_GGA_NOFIX ==
    <<"$","G","P","G","G","A",",",",",",",",",",",",","0",",","0","0",",","9","9",".","9","9",",",",",",",",",",",",","*","4","8">>

\* minimum-navigation as the receiver sends it before it has a fix
\*   $GPRMC,123520,V,,,,,,,230394,,,N*5B
F_RMC_NOFIX ==
    <<"$","G","P","R","M","C",",","1","2","3","5","2","0",",","V",",",",",",",",",",",",",",","2","3","0","3","9","4",",",",",",","N","*","5","B">>

\* a fix-data line cut short (the receiver was reset while sending it)
\*   $GPGGA,123521,4807.038,N
F_GGA_CURTA ==
    <<"$","G","P","G","G","A",",","1","2","3","5","2","1",",","4","8","0","7",".","0","3","8",",","N">>

\* An empty line: the frame read is empty.
F_EMPTY == <<>>

\* an informative text that lists the sentences the receiver sends
\*   $GPTXT,01,01,02,GGA,RMC,GSA,GSV,GLL,VTG*69
F_TXT_LISTA ==
    <<"$","G","P","T","X","T",",","0","1",",","0","1",",","0","2",",","G","G","A",",","R","M","C",",","G","S","A",",","G","S","V",",","G","L","L",",","V","T","G","*","6","9">>

DeviceFrames ==
    {F_GGA, F_RMC, F_TXT, F_GGA_NAN, F_RMC_NAN, F_GGA_NOFIX, F_RMC_NOFIX,
     F_GGA_CURTA, F_EMPTY}

CR == "\r"
LF == "\n"

(***************************************************************************)
(* GPSTrack::GPSData                                                       *)
(***************************************************************************)
\* Sign and magnitude of (graus + minutos / 60) * (+1 | -1), in 1e-6 degree,
\* for a numeric value valor_cru given in units of 1e-4.  The sign is kept
\* apart from the magnitude because the product keeps the sign of a zero.
Graus(valor_cru) == valor_cru \div (100 * FieldUnit)

Minutos(valor_cru) == valor_cru - Graus(valor_cru) * 100 * FieldUnit

\* A variant of the conversion that takes the minutes for hundredths of a
\* degree.
Coordenada_centesimal(valor_cru) ==
    Graus(valor_cru) * DegUnit + Minutos(valor_cru)

Coordenada(valor_cru) ==
    Graus(valor_cru) * DegUnit + RoundDiv(Minutos(valor_cru) * 100, 60)

Abs(x) == IF x < 0 THEN 0 - x ELSE x

\* std::to_string(double): "%f".
to_string(negativo, magnitude) ==
    (IF negativo THEN <<"-">> ELSE <<>>) \o FixedText(magnitude, 6)

\* The text returned for a coordinate in units of 1e-6 degree.
converter_lat_lon_texto(coordenada, string_hemisf) ==
    to_string((coordenada < 0) # (string_hemisf \in {<<"S">>, <<"W">>}),
              Abs(coordenada))

\* r is the outcome of std::stod; std::invalid_argument is caught and
\* leaves valor_cru at 0.
converter_lat_lon_valor(r, string_hemisf) ==
    IF r.st = "out_of_range"
    THEN [exc |-> "out_of_range", text |-> <<>>]
    ELSE [exc |-> "none",
          text |-> converter_lat_lon_texto(Coordenada(IF r.st = "ok" THEN r.val ELSE 0),
                                           string_hemisf)]

\* The result is [exc, text]: exc names the exception that leaves the
\* function ("none" when it returns).  Only std::invalid_argument is caught.
converter_lat_lon(string_numerica, string_hemisf) ==
    IF string_numerica = <<>> THEN [exc |-> "none", text |-> <<>>]
    ELSE converter_lat_lon_valor(stod(string_numerica), string_hemisf)

\* What reading past the end of a std::vector<std::string> may yield when
\* it does not fault: some text that is not a field of the sentence.
Garbage == {<<>>, <<"?">>}

\* data_splitted[idx] (idx counted from 0); lixo stands for the text read
\* when idx is past the end.
VectorAt(data_splitted, idx, lixo) ==
    IF idx < Len(data_splitted) THEN data_splitted[idx + 1] ELSE lixo

\* The outcome [exc, ret, data] of the assignments of parsing, given the
\* time and altitude fields and the outcomes of the two conversions.
parsing_dados(horario_utc, lat, lon, alt) ==
    IF lat.exc # "none"
    THEN [exc |-> lat.exc, ret |-> FALSE, data |-> <<horario_utc>>]
    ELSE IF lon.exc # "none"
    THEN [exc |-> lon.exc, ret |-> FALSE, data |-> <<horario_utc, lat.text>>]
    ELSE [exc |-> "none", ret |-> TRUE,
          data |-> <<horario_utc, lat.text, lon.text, alt>>]

\* The outcome when an index past the end reads lixo.
parsing_lendo(data_splitted, lixo) ==
    parsing_dados(VectorAt(data_splitted, 1, lixo),
                  converter_lat_lon(VectorAt(data_splitted, 2, lixo),
                                    VectorAt(data_splitted, 3, lixo)),
                  converter_lat_lon(VectorAt(data_splitted, 4, lixo),
                                    VectorAt(data_splitted, 5, lixo)),
                  VectorAt(data_splitted, 9, lixo))

\* The set of outcomes [exc, ret, data] of parsing(code_pattern,
\* data_splitted).  The indices 1..5 and 9 are read without a size check:
\* with fewer than 10 elements the read is undefined, and either faults
\* ("segfault") or yields garbage.
parsing(code_pattern, data_splitted) ==
    IF code_pattern # 0
    THEN {[exc |-> "none", ret |-> FALSE, data |-> <<>>]}
    ELSE {parsing_lendo(data_splitted, lixo) : lixo \in Garbage}
         \cup (IF Len(data_splitted) >= 10 THEN {}
               ELSE {[exc |-> "segfault", ret |-> FALSE, data |-> <<>>]})

\* Joins the elements with commas.
RECURSIVE Join(_)
Join(elementos) ==
    IF elementos = <<>> THEN <<>>
    ELSE IF Len(elementos) = 1 THEN elementos[1]
    ELSE elementos[1] \o <<",">> \o Join(Tail(elementos))

to_csv(data) == Join(SubSeq(data, 1, 4)) \o <<LF>>

(***************************************************************************)
(* TrackSense                                                              *)
(***************************************************************************)
GPSDataInicial ==
    [time_utc |-> <<>>, lat |-> 0, lon |-> 0, vel |-> 0, alt |-> 0,
     sat |-> 0, hdop |-> 0]

converter_lat_long_valor(r, hemisf) ==
    IF r.st # "ok" THEN [exc |-> r.st, val |-> 0]
    ELSE [exc |-> "none",
          val |-> IF hemisf \in {<<"S">>, <<"W">>}
                  THEN 0 - Coordenada(r.val) ELSE Coordenada(r.val)]

\* [exc, val]: val in 1e-6 degree.  No exception of std::stod is caught.
converter_lat_long(valor, hemisf) ==
    IF valor = <<>> THEN [exc |-> "none", val |-> 0]
    ELSE converter_lat_long_valor(stod(valor), hemisf)

\* Knots to m/s: the factor 0.514, on a value in units of 1e-4.
NosParaMps(nos) ==
    LET m == Abs(nos)
        v == (m \div 1000) * 514 + RoundDiv((m % 1000) * 514, 1000)
    IN  IF nos >= 0 THEN v ELSE 0 - v

\* [exc, data, fim]: the record after the call, the exception that leaves
\* it, and whether the last assignment was reached.  The assignments are
\* made in order, so an exception leaves the earlier ones done.
_parser_rmc_dados(data, time_utc, lat, lon, vel) ==
    IF lat.exc # "none"
    THEN [exc |-> lat.exc, fim |-> FALSE, data |-> [data EXCEPT !.time_utc = time_utc]]
    ELSE IF lon.exc # "none"
    THEN [exc |-> lon.exc, fim |-> FALSE,
          data |-> [data EXCEPT !.time_utc = time_utc, !.lat = lat.val]]
    ELSE IF vel.st # "ok"
    THEN [exc |-> vel.st, fim |-> FALSE,
          data |-> [data EXCEPT !.time_utc = time_utc, !.lat = lat.val, !.lon = lon.val]]
    ELSE [exc |-> "none", fim |-> TRUE,
          data |-> [data EXCEPT !.time_utc = time_utc, !.lat = lat.val,
                                !.lon = lon.val, !.vel = NosParaMps(vel.val)]]

_parser_rmc_campos(campos_de_infos, data) ==
    IF Len(campos_de_infos) < 8 THEN [exc |-> "none", fim |-> FALSE, data |-> data]
    ELSE _parser_rmc_dados(data, campos_de_infos[2],
                           converter_lat_long(campos_de_infos[4], campos_de_infos[5]),
                           converter_lat_long(campos_de_infos[6], campos_de_infos[7]),
                           stod(campos_de_infos[8]))

_parser_rmc(frase, data) == _parser_rmc_campos(split(frase, ","), data)

\* A variant of the assignments of _parser_gga that starts from an empty
\* record, so that the fields a GGA sentence does not carry are reset.
_parser_gga_dados_reinicia(data, time_utc, lat, lon, sat, hdop, alt) ==
    IF lat.exc # "none"
    THEN [exc |-> lat.exc, fim |-> FALSE, data |-> data]
    ELSE IF lon.exc # "none"
    THEN [exc |-> lon.exc, fim |-> FALSE, data |-> data]
    ELSE IF sat.st # "ok"
    THEN [exc |-> sat.st, fim |-> FALSE, data |-> data]
    ELSE IF hdop.st # "ok"
    THEN [exc |-> hdop.st, fim |-> FALSE, data |-> data]
    ELSE IF alt.st # "ok"
    THEN [exc |-> alt.st, fim |-> FALSE, data |-> data]
    ELSE [exc |-> "none", fim |-> TRUE,
          data |-> [GPSDataInicial EXCEPT !.time_utc = time_utc, !.lat = lat.val,
                                          !.lon = lon.val, !.sat = sat.val,
                                          !.hdop = hdop.val, !.alt = alt.val]]

_parser_gga_dados(data, time_utc, lat, lon, sat, hdop, alt) ==
    IF lat.exc # "none"
    THEN [exc |-> lat.exc, fim |-> FALSE, data |-> [data EXCEPT !.time_utc = time_utc]]
    ELSE IF lon.exc # "none"
    THEN [exc |-> lon.exc, fim |-> FALSE,
          data |-> [data EXCEPT !.time_utc = time_utc, !.lat = lat.val]]
    ELSE IF sat.st # "ok"
    THEN [exc |-> sat.st, fim |-> FALSE,
          data |-> [data EXCEPT !.time_utc = time_utc, !.lat = lat.val, !.lon = lon.val]]
    ELSE IF hdop.st # "ok"
    THEN [exc |-> hdop.st, fim |-> FALSE,
          data |-> [data EXCEPT !.time_utc = time_utc, !.lat = lat.val, !.lon = lon.val,
                                !.sat = sat.val]]
    ELSE IF alt.st # "ok"
    THEN [exc |-> alt.st, fim |-> FALSE,
          data |-> [data EXCEPT !.time_utc = time_utc, !.lat = lat.val, !.lon = lon.val,
                                !.sat = sat.val, !.hdop = hdop.val]]
    ELSE [exc |-> "none", fim |-> TRUE,
          data |-> [data EXCEPT !.time_utc = time_utc, !.lat = lat.val, !.lon = lon.val,
                                !.sat = sat.val, !.hdop = hdop.val, !.alt = alt.val]]

_parser_gga_campos(campos_de_infos, data) ==
    IF Len(campos_de_infos) < 10 THEN [exc |-> "none", fim |-> FALSE, data |-> data]
    ELSE _parser_gga_dados(data, campos_de_infos[2],
                           converter_lat_long(campos_de_infos[3], campos_de_infos[4]),
                           converter_lat_long(campos_de_infos[5], campos_de_infos[6]),
                           stoi(campos_de_infos[8]),
                           stod(campos_de_infos[9]),
                           stod(campos_de_infos[10]))

_parser_gga(frase, data) == _parser_gga_campos(split(frase, ","), data)

(***************************************************************************)
(* GPSSim: sentence synthesis                                              *)
(***************************************************************************)
\* The printable ASCII characters, from the blank (code 32) on.  The double
\* quote, the backslash and the back quote, which no sentence holds, are
\* written by name.
AsciiPrintable ==
    <<
      " ", "!", "dq", "#", "$", "%", "&", "'", "(", ")", "*", "+", ",", "-", ".", "/",
      "0", "1", "2", "3", "4", "5", "6", "7", "8", "9", ":", ";", "<", "=", ">", "?",
      "@", "A", "B", "C", "D", "E", "F", "G", "H", "I", "J", "K", "L", "M", "N", "O",
      "P", "Q", "R", "S", "T", "U", "V", "W", "X", "Y", "Z", "[", "bs", "]", "^", "_",
      "bq", "a", "b", "c", "d", "e", "f", "g", "h", "i", "j", "k", "l", "m", "n", "o",
      "p", "q", "r", "s", "t", "u", "v", "w", "x", "y", "z", "{", "|", "}", "~" >>

\* (uint8_t)caract
Ord(caract) ==
    IF caract = CR THEN 13
    ELSE IF caract = LF THEN 10
    ELSE 31 + (CHOOSE i \in 1..Len(AsciiPrintable) : AsciiPrintable[i] = caract)

\* Bitwise exclusive-or of two naturals.
RECURSIVE Xor(_, _)
Xor(a, b) ==
    IF a = 0 THEN b
    ELSE IF b = 0 THEN a
    ELSE ((a + b) % 2) + 2 * Xor(a \div 2, b \div 2)

HexDigits == <<"0","1","2","3","4","5","6","7","8","9","A","B","C","D","E","F">>

\* std::uppercase << std::hex of a natural number.
RECURSIVE HexText(_)
HexText(n) ==
    IF n < 16 THEN <<HexDigits[n + 1]>>
    ELSE HexText(n \div 16) \o <<HexDigits[(n % 16) + 1]>>

\* paridade ^= (uint8_t)caract, over the whole body (the exclusive-or is
\* associative: the body is folded by halves).
RECURSIVE Paridade(_)
Paridade(corpo_frase) ==
    IF corpo_frase = <<>> THEN 0
    ELSE IF Len(corpo_frase) = 1 THEN Ord(corpo_frase[1])
    ELSE LET meio == Len(corpo_frase) \div 2
         IN  Xor(Paridade(SubSeq(corpo_frase, 1, meio)),
                 Paridade(SubSeq(corpo_frase, meio + 1, Len(corpo_frase))))

\* A variant without std::setw(2): the parity is written with as many
\* digits as it has.
finalizar_sem_setw(corpo_frase) ==
    <<"$">> \o corpo_frase \o <<"*">> \o HexText(Paridade(corpo_frase)) \o <<CR, LF>>

finalizar_corpo_de_frase(corpo_frase) ==
    <<"$">> \o corpo_frase \o <<"*">>
        \o PadLeft(HexText(Paridade(corpo_frase)), 2) \o <<CR, LF>>

\* GPSSim::build_nmea_string, the same statements as
\* finalizar_corpo_de_frase.
build_nmea_string(corpo_frase) ==
    <<"$">> \o corpo_frase \o <<"*">>
        \o PadLeft(HexText(Paridade(corpo_frase)), 2) \o <<CR, LF>>

formatar_inteiro(valor, quant_digitos) == PadLeft(NatText(valor), quant_digitos)

\* Simulated positions are in units of 1e-7 degree.
SimUnit == Pow10(7)

\* A variant without std::setw / std::setfill: the degrees and the minutes
\* are written with as many digits as they have.
converter_graus_sem_setw(graus_decimais, is_lat) ==
    LET valor_abs == Abs(graus_decimais)
        graus     == valor_abs \div SimUnit
        min       == RoundDiv((valor_abs % SimUnit) * 60, SimUnit \div FieldUnit)
    IN  [hemisf |-> IF is_lat
                    THEN (IF graus_decimais >= 0 THEN "N" ELSE "S")
                    ELSE (IF graus_decimais >= 0 THEN "E" ELSE "W"),
         ddmm   |-> NatText(graus) \o FixedText(min, 4)]

\* [ddmm, hemisf] for a position graus_decimais; the minutes are printed
\* with four decimals in a field of seven characters.
converter_graus_para_nmea(graus_decimais, is_lat) ==
    LET valor_abs == Abs(graus_decimais)
        graus     == valor_abs \div SimUnit
        min       == RoundDiv((valor_abs % SimUnit) * 60, SimUnit \div FieldUnit)
    IN  [hemisf |-> IF is_lat
                    THEN (IF graus_decimais >= 0 THEN "N" ELSE "S")
                    ELSE (IF graus_decimais >= 0 THEN "E" ELSE "W"),
         ddmm   |-> PadLeft(NatText(graus), IF is_lat THEN 2 ELSE 3)
                    \o PadLeft(FixedText(min, 4), 7)]

\* std::fixed << std::setprecision(d) of a value in units of 1e-4, d <= 4.
FixedPrec(valor, d) ==
    (IF valor < 0 THEN <<"-">> ELSE <<>>)
        \o FixedText(RoundDiv(Abs(valor), Pow10(4 - d)), d)

_gerar_corpo_de_frase_rmc(tempo_utc, lat_graus, lon_graus, velocidade_nos) ==
    LET lat == converter_graus_para_nmea(lat_graus, TRUE)
        lon == converter_graus_para_nmea(lon_graus, FALSE)
    IN  finalizar_corpo_de_frase(
            <<"G","P","R","M","C",",">>
            \o formatar_inteiro(tempo_utc.tm_hour, 2)
            \o formatar_inteiro(tempo_utc.tm_min, 2)
            \o formatar_inteiro(tempo_utc.tm_sec, 2) \o <<".","0","0",",","A",",">>
            \o lat.ddmm \o <<",", lat.hemisf, ",">>
            \o lon.ddmm \o <<",", lon.hemisf, ",">>
            \o FixedPrec(velocidade_nos, 2) \o <<",","0",".","0","0",",">>
            \o formatar_inteiro(tempo_utc.tm_mday, 2)
            \o formatar_inteiro(tempo_utc.tm_mon + 1, 2)
            \o formatar_inteiro((tempo_utc.tm_year + 1900) % 100, 2)
            \o <<",",",",",","A">>)

_gerar_corpo_de_frase_gga(tempo_utc, lat_graus, lon_graus, alt_metros, sat, hdop) ==
    LET lat == converter_graus_para_nmea(lat_graus, TRUE)
        lon == converter_graus_para_nmea(lon_graus, FALSE)
    IN  finalizar_corpo_de_frase(
            <<"G","P","G","G","A",",">>
            \o formatar_inteiro(tempo_utc.tm_hour, 2)
            \o formatar_inteiro(tempo_utc.tm_min, 2)
            \o formatar_inteiro(tempo_utc.tm_sec, 2) \o <<".","0","0",",">>
            \o lat.ddmm \o <<",", lat.hemisf, ",">>
            \o lon.ddmm \o <<",", lon.hemisf, ",","1",",">>
            \o NatText(sat) \o <<",">> \o FixedPrec(hdop, 1) \o <<",">>
            \o FixedPrec(alt_metros, 1) \o <<",","M",",","0",".","0",",","M",",",",">>)

\* A double passed as an int parameter: truncated toward zero (values in
\* units of unidade).
ParaInt(valor, unidade) ==
    IF valor < 0 THEN 0 - ((0 - valor) \div unidade) ELSE valor \div unidade

\* operator<< of an int.
IntText(n) == IF n < 0 THEN <<"-">> \o NatText(0 - n) ELSE NatText(n)

\* std::fixed << std::setprecision(d) of a value in units of 1e-6, d = 6.
FixedMicro(valor) ==
    (IF valor < 0 THEN <<"-">> ELSE <<>>) \o FixedText(Abs(valor), 6)

\* TrackSense::formatar_csv: the record as one line of text.  The stream
\* is set to six decimals before the latitude and to two before the
\* speed; a precision stays in force until the next one is set.
formatar_csv(data) ==
    data.time_utc \o <<",">> \o FixedMicro(data.lat) \o <<",">> \o FixedMicro(data.lon)
        \o <<",">> \o FixedPrec(data.vel, 2) \o <<",">> \o FixedPrec(data.alt, 2)
        \o <<",">> \o IntText(data.sat) \o <<",">> \o FixedPrec(data.hdop, 2)

\* GPSSim_simples: NMEAGenerator::generate_gga(int, int, int); the
\* position and the altitude arrive as whole numbers, the number of
\* satellites and the dilution are written as -1.
generate_gga(tempo_utc, lat_graus, lon_graus, alt_metros) ==
    LET lat == converter_graus_para_nmea(lat_graus * SimUnit, TRUE)
        lon == converter_graus_para_nmea(lon_graus * SimUnit, FALSE)
    IN  build_nmea_string(
            <<"G","P","G","G","A",",">>
            \o formatar_inteiro(tempo_utc.tm_hour, 2)
            \o formatar_inteiro(tempo_utc.tm_min, 2)
            \o formatar_inteiro(tempo_utc.tm_sec, 2) \o <<".","0","0",",">>
            \o lat.ddmm \o <<",", lat.hemisf, ",">>
            \o lon.ddmm \o <<",", lon.hemisf, ",","1",",">>
            \o IntText(0 - 1) \o <<",">> \o IntText(0 - 1) \o <<",">>
            \o IntText(alt_metros) \o <<",","M",",","0",".","0",",","M",",",",">>)

(***************************************************************************)
(* State                                                                   *)
(*                                                                         *)
(* Two components own a background thread: "acq", the acquisition class    *)
(* (GPSTrack or TrackSense), and "sim", the GPSSim simulator, which exists *)
(* when the serial path of the acquisition class is its pseudo-terminal.   *)
(***************************************************************************)
VARIABLES
    wvariant,         \* the acquisition class: "GPSTrack" or "TrackSense"
    porta_serial,     \* what the serial path names: "tty" (a receiver) or "pty" (GPSSim)
    callers,          \* the threads that call init, stop and the destructors
    cenario,          \* what the owner and the receiver do: "ciclo" or "fluxo"
    chamada,          \* a call of one of the static functions: [fn, arg, res]
    svariant,         \* the simulator class: "GPSSim" or "GPSSim_simples"
    _start_time,      \* GPSSim: the instant the elapsed time is counted from, seconds
    _mov_circ,        \* GPSSim: the circular motion is on
    _raio,            \* GPSSim: radius of the circle, metres
    _periodo_circ,    \* GPSSim: period of the circle, seconds
    _lat_sim,         \* GPSSim: simulated latitude, 1e-7 degree
    _lon_sim,         \* GPSSim: simulated longitude, 1e-7 degree
    obj,              \* [Comp -> how far the constructor got (fase), the descriptors, and
                      \* whether the line configuration was applied (config)]
    acesso,           \* history: the last access to the trajectory members, [quem, durante],
                      \* and traj, the arguments of the last config_traj
    is_exec,          \* [Comp -> BOOLEAN]: the atomic flags
    worker,           \* [Comp -> "none" | "joinable"]: the std::thread members
    pc,               \* [Comp -> where the background thread is]
    cpc,              \* [callers -> where the caller is]
    calls,            \* number of init and stop calls made
    closed,           \* [Comp -> number of times the descriptors were closed]
    rx,               \* the bytes waiting in the input queue of the serial descriptor
    buffer,           \* read_serial: the characters read so far
    mensagem,         \* loop: the frame of this iteration (empty between iterations)
    parsed,           \* loop: the flag of GPSTrack::loop
    last_data_given,  \* the fix record
    sent,             \* the datagrams given to sendto, [payload, ok], in order
    crash,            \* "none", or why the process was terminated
    nframes,          \* sentences the receiver has written
    nfaults,          \* failures the environment has injected
    nticks,           \* ticks of the simulator
    npassos,          \* the acquisition run beside the simulator: sleeps of its loop
    starts,           \* history: [Comp -> threads constructed since the last stop that cleared the flag]
    ups,              \* history: [Comp -> times the flag went from false to true]
    downs,            \* history: [Comp -> times the flag went from true to false]
    stopped,          \* history: [Comp -> a stop that cleared the flag has returned, and no init since]
    ultimo,           \* history: the last call that returned, [op, comp, noop]
    ret_running,      \* history: [Comp -> some stop returned while the thread was still running]
    iter              \* history: what the last finished iteration of the acquisition loop did

lifeVars == <<is_exec, worker, pc, cpc, calls, closed>>
loopVars == <<buffer, mensagem, parsed, last_data_given>>
envVars  == <<rx, sent, nframes, nfaults, nticks>>
histVars == <<starts, ups, downs, stopped, ultimo, ret_running, iter>>
ctxVars  == <<wvariant, porta_serial, callers, cenario, chamada, svariant, _start_time>>
baseVars == <<ctxVars, npassos>>
trajVars == <<_mov_circ, _raio, _periodo_circ, _lat_sim, _lon_sim>>
confVars == <<baseVars, trajVars, acesso, obj>>
vars     == <<confVars, lifeVars, loopVars, envVars, crash, histVars>>

Comp == {"acq", "sim"}

Exists(c) == (c = "acq" \/ porta_serial = "pty") /\ obj[c].fase = "pronto"

Idle == [at |-> "idle", comp |-> "none", op |-> "none"]

At(where, c, op) == [at |-> where, comp |-> c, op |-> op]

\* A returned call: noop when it returned at the exchange.
Fez(op, c, noop) == [op |-> op, comp |-> c, noop |-> noop]

\* The thread of c has been started and its function has not returned.
Running(c) == pc[c] \notin {"none", "exited"}

(***************************************************************************)
(* Bounds                                                                  *)
(***************************************************************************)
MaxCalls == 3
MaxFrames == 1
MaxFaults == 1
MaxTicks == 1
MaxStream == 2
MaxTexto == 4
MaxCorpo == 3
MaxVolta == 5
MaxPassos == 3

\* Two scenarios.  "ciclo": the owner makes up to MaxCalls calls of init
\* and stop while the receiver sends up to MaxFrames lines.  "fluxo": the
\* owner makes one call and the receiver sends up to MaxStream lines.
LimCalls == IF cenario = "fluxo" THEN 1 ELSE MaxCalls

LimFrames == IF cenario = "fluxo" THEN MaxStream ELSE MaxFrames

\* "simulador": the owner drives the simulator alone, for up to MaxVolta
\* ticks.
LimTicks ==
    IF cenario = "simulador" THEN MaxVolta
    ELSE IF cenario = "ritmo" THEN MaxPassos + 1 ELSE MaxTicks

(***************************************************************************)
(* The values given to the constructors (debug.cpp).                       *)
(***************************************************************************)
_lat == 0 - 229559000
_lon == 0 - 431659000
_alt == 7600000
_velocidade_nos == 20000

\* _periodo_atualizacao, in seconds: 1 / frequencia_atualizacao_hz.  The
\* simulator driven alone is built with a tick of 30 s (GPSSim_simples
\* always sleeps one second).
_periodo_atualizacao ==
    IF cenario = "simulador" /\ svariant = "GPSSim" THEN 30 ELSE 1

\* steady_clock::now(), in seconds since the objects were constructed,
\* after ticks sleeps of the simulator.
agora(ticks) == ticks * _periodo_atualizacao

\* steady_clock::now() - _start_time, in seconds, after ticks sleeps.
tempo_decorrido(ticks) == agora(ticks) - _start_time

\* obter_tempo_utc: the wall clock, which started at 12:35:19.
tempo_utc ==
    [tm_hour |-> 12,
     tm_min  |-> 35 + (19 + agora(nticks)) \div 60,
     tm_sec  |-> (19 + agora(nticks)) % 60,
     tm_mday |-> 23, tm_mon |-> 2, tm_year |-> 94]

NoIter ==
    [done |-> FALSE, vazia |-> FALSE, ret |-> FALSE, pub |-> FALSE, mudou |-> FALSE,
     tipo |-> "none"]

\* No static function is being called.
NoCall == [fn |-> "none", arg |-> <<>>, res |-> <<>>, feito |-> FALSE]

\* No member of the trajectory was read or written yet.
NoAccess == [quem |-> "none", durante |-> FALSE, traj |-> <<>>]

\* The simulator once constructed: the members' initialisers.
GPSSimConstruido ==
    /\ _start_time = 0
    /\ _mov_circ = FALSE
    /\ _raio = 20
    /\ _periodo_circ = 20
    /\ _lat_sim = 0
    /\ _lon_sim = 0
    /\ acesso = NoAccess

\* The objects before their constructors: no descriptor yet.
ObjNada ==
    [c \in Comp |->
        IF c = "acq"
        THEN [fase |-> "nada", sockfd |-> "nenhum", fd_serial |-> "nenhum", config |-> FALSE]
        ELSE [fase |-> "nada", _fd_pai |-> "nenhum", _fd_filho |-> "nenhum", config |-> FALSE]]

\* The objects after constructors in which every step succeeded: the
\* socket and the serial port open; the parent side of the pseudo-terminal
\* open and the child side closed again.
ObjPronto ==
    [c \in Comp |->
        IF c = "acq"
        THEN [fase |-> "pronto", sockfd |-> "aberto", fd_serial |-> "aberto", config |-> TRUE]
        ELSE [fase |-> "pronto", _fd_pai |-> "aberto", _fd_filho |-> "fechado", config |-> TRUE]]

\* The state of the pipeline once the objects are constructed.
Construido(threads, cen) ==
    /\ obj = IF cen = "construcao" THEN ObjNada ELSE ObjPronto
    /\ wvariant \in {"GPSTrack", "TrackSense"}
    /\ svariant \in IF cen \in {"simulador", "ritmo"}
                     THEN {"GPSSim", "GPSSim_simples"} ELSE {"GPSSim"}
    /\ GPSSimConstruido
    /\ porta_serial \in {"tty", "pty"}
    /\ callers = threads
    /\ cenario = cen
    /\ is_exec = [c \in Comp |-> FALSE]
    /\ worker = [c \in Comp |-> "none"]
    /\ pc = [c \in Comp |-> "none"]
    /\ cpc = [t \in threads |-> Idle]
    /\ calls = 0
    /\ closed = [c \in Comp |-> 0]
    /\ rx = <<>>
    /\ buffer = <<>>
    /\ mensagem = <<>>
    /\ parsed = FALSE
    /\ last_data_given = IF wvariant = "GPSTrack" THEN <<>> ELSE GPSDataInicial
    /\ sent = <<>>
    /\ crash = "none"
    /\ nframes = 0
    /\ nfaults = 0
    /\ nticks = 0
    /\ npassos = 0
    /\ starts = [c \in Comp |-> 0]
    /\ ups = [c \in Comp |-> 0]
    /\ downs = [c \in Comp |-> 0]
    /\ stopped = [c \in Comp |-> FALSE]
    /\ ultimo = [op |-> "none", comp |-> "none", noop |-> FALSE]
    /\ ret_running = [c \in Comp |-> FALSE]
    /\ iter = NoIter

InitWith(threads) == Construido(threads, "ciclo") /\ chamada = NoCall

\* One owning thread, as in every main of the repository.
Init == InitWith({"main"})

\* Two threads that share the components.
InitRace == InitWith({"main", "other"})

\* One owning thread that starts the acquisition and lets it run.
InitFluxo == Construido({"main"}, "fluxo") /\ chamada = NoCall

(***************************************************************************)
(* init and stop (GPSTrack, TrackSense and GPSSim have the same code)      *)
(***************************************************************************)
\* No destructor of c is running.
NoDestructor(c) == \A u \in callers : ~(cpc[u].comp = c /\ cpc[u].op = "destroy")

\* Where a caller goes when stop returns: back to its own code, or on with
\* the destructor that called stop.
Returned(c, op) == IF op = "destroy" THEN At("close", c, op) ELSE Idle

\* A variant of init that sets the flag with a plain store and goes on to
\* construct the thread whatever the flag was.
init_sem_exchange(t, c) ==
    /\ crash = "none" /\ cpc[t] = Idle
    /\ Exists(c) /\ closed[c] = 0 /\ NoDestructor(c)
    /\ calls < LimCalls
    /\ calls' = calls + 1
    /\ is_exec' = [is_exec EXCEPT ![c] = TRUE]
    /\ cpc' = [cpc EXCEPT ![t] = At("thread", c, "init")]
    /\ ups' = [ups EXCEPT ![c] = IF is_exec[c] THEN @ ELSE @ + 1]
    /\ stopped' = [stopped EXCEPT ![c] = FALSE]
    /\ UNCHANGED <<confVars, worker, pc, closed, loopVars, envVars, crash,
                   starts, downs, ultimo, ret_running, iter>>

\* init, up to the exchange: if( is_exec.exchange(true) ){ return; }
init(t, c) ==
    /\ crash = "none" /\ cpc[t] = Idle
    /\ Exists(c) /\ closed[c] = 0 /\ NoDestructor(c)
    /\ calls < LimCalls
    /\ calls' = calls + 1
    /\ IF is_exec[c]
       THEN /\ ultimo' = Fez("init", c, TRUE)
            /\ UNCHANGED <<is_exec, cpc, ups, stopped>>
       ELSE /\ is_exec' = [is_exec EXCEPT ![c] = TRUE]
            /\ cpc' = [cpc EXCEPT ![t] = At("thread", c, "init")]
            /\ ups' = [ups EXCEPT ![c] = @ + 1]
            /\ stopped' = [stopped EXCEPT ![c] = FALSE]
            /\ UNCHANGED ultimo
    /\ UNCHANGED <<confVars, worker, pc, closed, loopVars, envVars, crash,
                   starts, downs, ret_running, iter>>

\* GPSSim::_loop, before the while: _lat_sim = _lat; _lon_sim = _lon, the
\* first statements of a thread that comeca.
_loop_inicio(comeca) ==
    /\ _lat_sim' = IF comeca THEN _lat ELSE _lat_sim
    /\ _lon_sim' = IF comeca THEN _lon ELSE _lon_sim

\* init, the assignment: worker = std::thread([this]{ loop(); }).  The new
\* thread is constructed first; assigning to a std::thread that is still
\* joinable calls std::terminate.
init_thread(t, c) ==
    /\ crash = "none" /\ cpc[t] = At("thread", c, "init")
    /\ starts' = [starts EXCEPT ![c] = @ + 1]
    /\ cpc' = [cpc EXCEPT ![t] = Idle]
    /\ ultimo' = Fez("init", c, FALSE)
    /\ IF worker[c] = "joinable"
       THEN /\ crash' = "thread_assign"
            /\ UNCHANGED <<worker, pc, parsed>>
       ELSE /\ worker' = [worker EXCEPT ![c] = "joinable"]
            /\ pc' = [pc EXCEPT ![c] = "while"]
            /\ parsed' = IF c = "acq" THEN FALSE ELSE parsed
            /\ UNCHANGED crash
    /\ _loop_inicio(c = "sim" /\ svariant = "GPSSim" /\ worker[c] # "joinable")
    /\ UNCHANGED <<baseVars, obj, _mov_circ, _raio, _periodo_circ, acesso, is_exec, calls,
                   closed, buffer, mensagem, last_data_given, envVars, ups, downs,
                   stopped, ret_running, iter>>

\* A variant of stop that clears the flag without looking at what it was.
stop_sem_teste(t, c, op) ==
    /\ crash = "none" /\ cpc[t] = Idle
    /\ Exists(c) /\ closed[c] = 0 /\ NoDestructor(c)
    /\ is_exec' = [is_exec EXCEPT ![c] = FALSE]
    /\ cpc' = [cpc EXCEPT ![t] = At("joinable", c, op)]
    /\ downs' = [downs EXCEPT ![c] = @ + 1]
    /\ starts' = [starts EXCEPT ![c] = 0]
    /\ UNCHANGED <<confVars, worker, pc, closed, loopVars, envVars, crash,
                   ups, stopped, ultimo, ret_running, iter>>

\* stop, up to the exchange: if( !is_exec.exchange(false) ){ return; }
\* op tells who called it: "stop" (the owner) or "destroy" (the destructor).
stop(t, c, op) ==
    /\ crash = "none" /\ cpc[t] = Idle
    /\ Exists(c) /\ closed[c] = 0 /\ NoDestructor(c)
    /\ IF ~is_exec[c]
       THEN /\ cpc' = [cpc EXCEPT ![t] = Returned(c, op)]
            /\ ret_running' = [ret_running EXCEPT ![c] = @ \/ Running(c)]
            /\ ultimo' = Fez(op, c, TRUE)
            /\ UNCHANGED <<is_exec, downs, starts>>
       ELSE /\ is_exec' = [is_exec EXCEPT ![c] = FALSE]
            /\ cpc' = [cpc EXCEPT ![t] = At("joinable", c, op)]
            /\ downs' = [downs EXCEPT ![c] = @ + 1]
            /\ starts' = [starts EXCEPT ![c] = 0]
            /\ UNCHANGED <<ret_running, ultimo>>
    /\ UNCHANGED <<confVars, worker, pc, closed, loopVars, envVars, crash,
                   ups, stopped, iter>>

\* A variant of the test that never finds the thread joinable, so that
\* stop returns once the flag is cleared.
stop_joinable_nunca(t, c) ==
    /\ crash = "none" /\ cpc[t].at = "joinable" /\ cpc[t].comp = c
    /\ cpc' = [cpc EXCEPT ![t] = Returned(c, cpc[t].op)]
    /\ stopped' = [stopped EXCEPT ![c] = TRUE]
    /\ ultimo' = Fez(cpc[t].op, c, FALSE)
    /\ ret_running' = [ret_running EXCEPT ![c] = @ \/ Running(c)]
    /\ UNCHANGED <<confVars, is_exec, worker, pc, calls, closed, loopVars,
                   envVars, crash, starts, ups, downs, iter>>

\* stop, the test: if( worker.joinable() ); when it fails stop returns.
stop_joinable(t, c) ==
    /\ crash = "none" /\ cpc[t].at = "joinable" /\ cpc[t].comp = c
    /\ IF worker[c] = "joinable"
       THEN /\ cpc' = [cpc EXCEPT ![t] = At("join", c, cpc[t].op)]
            /\ UNCHANGED <<stopped, ret_running, ultimo>>
       ELSE /\ cpc' = [cpc EXCEPT ![t] = Returned(c, cpc[t].op)]
            /\ stopped' = [stopped EXCEPT ![c] = TRUE]
            /\ ultimo' = Fez(cpc[t].op, c, FALSE)
            /\ ret_running' = [ret_running EXCEPT ![c] = @ \/ Running(c)]
    /\ UNCHANGED <<confVars, is_exec, worker, pc, calls, closed, loopVars,
                   envVars, crash, starts, ups, downs, iter>>

\* A variant of the join that returns at once and leaves the thread
\* attached to the handle.
stop_join_sem_esperar(t, c) ==
    /\ crash = "none" /\ cpc[t].at = "join" /\ cpc[t].comp = c
    /\ cpc' = [cpc EXCEPT ![t] = Returned(c, cpc[t].op)]
    /\ stopped' = [stopped EXCEPT ![c] = TRUE]
    /\ ultimo' = Fez(cpc[t].op, c, FALSE)
    /\ UNCHANGED <<confVars, is_exec, worker, pc, calls, closed, loopVars, envVars,
                   crash, starts, ups, downs, ret_running, iter>>

\* stop, worker.join(): returns when the thread function has returned.
\* Joining a thread that is not joinable throws std::system_error.
stop_join(t, c) ==
    /\ crash = "none" /\ cpc[t].at = "join" /\ cpc[t].comp = c
    /\ IF worker[c] # "joinable"
       THEN /\ crash' = "join_error"
            /\ UNCHANGED <<worker, pc, cpc, stopped, ultimo>>
       ELSE /\ pc[c] = "exited"
            /\ ultimo' = Fez(cpc[t].op, c, FALSE)
            /\ worker' = [worker EXCEPT ![c] = "none"]
            /\ pc' = [pc EXCEPT ![c] = "none"]
            /\ cpc' = [cpc EXCEPT ![t] = Returned(c, cpc[t].op)]
            /\ stopped' = [stopped EXCEPT ![c] = TRUE]
            /\ UNCHANGED crash
    /\ UNCHANGED <<confVars, is_exec, calls, closed, loopVars, envVars,
                   starts, ups, downs, ret_running, iter>>

\* The owner calls stop.
call_stop(t, c) ==
    /\ calls < LimCalls
    /\ calls' = calls + 1
    /\ stop(t, c, "stop")

\* The destructor: stop(), then the descriptors are closed, then the
\* members are destroyed (a std::thread still joinable calls
\* std::terminate).  It runs when no other thread is using the object.
destructor(t, c) ==
    /\ \A u \in callers \ {t} : cpc[u].comp # c
    /\ UNCHANGED calls
    /\ stop(t, c, "destroy")

\* ::close of a descriptor in the state d.
close(d) == IF d = "aberto" THEN "fechado" ELSE IF d = "fechado" THEN "fechado_2x" ELSE d

destructor_close(t, c) ==
    /\ crash = "none" /\ cpc[t] = At("close", c, "destroy")
    /\ closed' = [closed EXCEPT ![c] = @ + 1]
    /\ obj' = IF c = "acq"
              THEN [obj EXCEPT ![c].sockfd = close(@), ![c].fd_serial = close(@)]
              ELSE [obj EXCEPT ![c]._fd_pai = close(@)]
    /\ cpc' = [cpc EXCEPT ![t] = Idle]
    /\ crash' = IF worker[c] = "joinable" THEN "thread_destructor" ELSE crash
    /\ UNCHANGED <<baseVars, trajVars, acesso, is_exec, worker, pc, calls, loopVars,
                   envVars, histVars>>

(***************************************************************************)
(* The background threads                                                  *)
(***************************************************************************)
\* A variant of the loop test that never looks at the flag.
loop_while_sem_teste(c) ==
    /\ crash = "none" /\ pc[c] = "while"
    /\ pc' = [pc EXCEPT ![c] = IF c = "sim" THEN "write" ELSE "read"]
    /\ UNCHANGED <<confVars, is_exec, worker, cpc, calls, closed, loopVars,
                   envVars, crash, histVars>>

\* while( is_exec ): the loop test of loop, _loop and GPSSim::_loop.
loop_while(c) ==
    /\ crash = "none" /\ pc[c] = "while"
    /\ pc' = [pc EXCEPT ![c] =
                IF ~is_exec[c] THEN "exited"
                ELSE IF c = "sim" THEN "write" ELSE "read"]
    /\ UNCHANGED <<confVars, is_exec, worker, cpc, calls, closed, loopVars,
                   envVars, crash, histVars>>

\* The lines the device may emit: those of a receiver at work, or, for the
\* receiver that only reports its status, informative texts.
Emitidas == IF cenario = "texto" THEN {F_TXT, F_TXT_LISTA} ELSE DeviceFrames

\* The GPS module (or anything else wired to the port) emits one line.
DeviceWrite(frase) ==
    /\ crash = "none" /\ porta_serial = "tty"
    /\ nframes < LimFrames
    /\ nframes' = nframes + 1
    /\ rx' = rx \o frase \o <<CR, LF>>
    /\ UNCHANGED <<confVars, lifeVars, loopVars, sent, nfaults, nticks, crash, histVars>>

\* Position of the first line feed of s, 0 when there is none.
FirstLF(s) ==
    IF \E i \in 1..Len(s) : s[i] = LF
    THEN CHOOSE i \in 1..Len(s) : s[i] = LF /\ \A j \in 1..(i - 1) : s[j] # LF
    ELSE 0

NaoCR(caract) == caract # CR

SemQuebra(caract) == caract \notin {CR, LF}

\* A variant of read_serial that hands over the oldest line and leaves
\* its bytes in the input queue.
read_serial_sem_consumir ==
    /\ crash = "none" /\ wvariant = "GPSTrack" /\ pc["acq"] = "read"
    /\ rx # <<>> /\ FirstLF(rx) > 0
    /\ mensagem' = buffer \o SelectSeq(SubSeq(rx, 1, FirstLF(rx) - 1), NaoCR)
    /\ buffer' = <<>>
    /\ pc' = [pc EXCEPT !["acq"] = "process"]
    /\ UNCHANGED <<confVars, is_exec, worker, cpc, calls, closed, parsed,
                   last_data_given, envVars, crash, histVars>>

\* GPSTrack::read_serial.  The port is opened with VMIN = 1, so read()
\* waits until a byte is there; the bytes already received are taken one
\* at a time up to the line feed.  read() returning 0 or -1 is a fault of
\* the line.
read_serial ==
    /\ crash = "none" /\ wvariant = "GPSTrack" /\ pc["acq"] = "read"
    /\ \/ /\ rx # <<>>
          /\ LET k == FirstLF(rx) IN
             IF k > 0
             THEN /\ mensagem' = buffer \o SelectSeq(SubSeq(rx, 1, k - 1), NaoCR)
                  /\ buffer' = <<>>
                  /\ rx' = SubSeq(rx, k + 1, Len(rx))
                  /\ pc' = [pc EXCEPT !["acq"] = "process"]
             ELSE /\ buffer' = buffer \o SelectSeq(rx, NaoCR)
                  /\ rx' = <<>>
                  /\ UNCHANGED <<mensagem, pc>>
          /\ UNCHANGED <<crash, nfaults>>
       \/ /\ nfaults < MaxFaults
          /\ nfaults' = nfaults + 1
          /\ \E n \in {0, 0 - 1} :
                IF n = 0
                THEN /\ mensagem' = buffer
                     /\ buffer' = <<>>
                     /\ pc' = [pc EXCEPT !["acq"] = "process"]
                     /\ UNCHANGED crash
                ELSE /\ crash' = "runtime_error"
                     /\ UNCHANGED <<mensagem, buffer, pc>>
          /\ UNCHANGED rx
    /\ UNCHANGED <<confVars, is_exec, worker, cpc, calls, closed, parsed,
                   last_data_given, sent, nframes, nticks, histVars>>

\* Size of the buffer of TrackSense::_ler_dados, less the terminator.
TamBuffer == 255

\* TrackSense::_ler_dados: one read() of up to 255 bytes; 0 or -1 gives the
\* empty string.
_ler_dados ==
    /\ crash = "none" /\ wvariant = "TrackSense" /\ pc["acq"] = "read"
    /\ \/ /\ rx # <<>>
          /\ LET ult_indice == IF Len(rx) < TamBuffer THEN Len(rx) ELSE TamBuffer IN
                /\ mensagem' = SubSeq(rx, 1, ult_indice)
                /\ rx' = SubSeq(rx, ult_indice + 1, Len(rx))
          /\ UNCHANGED nfaults
       \/ /\ nfaults < MaxFaults
          /\ nfaults' = nfaults + 1
          /\ mensagem' = <<>>
          /\ UNCHANGED rx
    /\ pc' = [pc EXCEPT !["acq"] = "process"]
    /\ UNCHANGED <<confVars, is_exec, worker, cpc, calls, closed, buffer, parsed,
                   last_data_given, sent, nframes, nticks, crash, histVars>>

GGA == <<"G", "G", "A">>
RMC == <<"R", "M", "C">>

\* The fields of a sentence as the protocol numbers them: the texts
\* between the commas, the empty ones included, the header being field 0.
Campos(frase) ==
    LET EhVirgula(i) == frase[i] = ","
        cortes == SelectSeq([i \in 1..Len(frase) |-> i], EhVirgula)
        n      == Len(cortes)
    IN  [k \in 1..(n + 1) |->
            SubSeq(frase, IF k = 1 THEN 1 ELSE cortes[k - 1] + 1,
                          IF k = n + 1 THEN Len(frase) ELSE cortes[k] - 1)]

\* The type the header of a line names.
Tipo(frase) ==
    IF frase = <<>> THEN "vazia"
    ELSE IF find(Campos(frase)[1], GGA) THEN "GGA"
    ELSE IF find(Campos(frase)[1], RMC) THEN "RMC"
    ELSE "outro"

\* A variant of the pass that serialises and sends the record whatever
\* was read, the empty line included.
loop_passo_sempre_envia(linha, o, enviado) ==
    LET chamou == find(linha, GGA)
        dados  == IF chamou THEN o.data ELSE last_data_given
    IN  [exc    |-> IF chamou /\ o.exc # "none" THEN o.exc
                    ELSE IF Len(dados) < 4 THEN "segfault" ELSE "none",
         data   |-> dados,
         parsed |-> FALSE,
         ret    |-> chamou /\ o.ret,
         send   |-> TRUE,
         out    |-> IF Len(dados) < 4 THEN <<>>
                    ELSE <<[payload |-> to_csv(dados), ok |-> enviado]>>]

\* A variant of the pass that sends the record it holds for every line
\* that is not empty, whatever the type of the line.
loop_passo_reenvia(linha, o, enviado) ==
    LET chamou  == linha # <<>> /\ find(linha, GGA)
        dados   == IF chamou THEN o.data ELSE last_data_given
        publica == linha # <<>> /\ Len(dados) >= 4
    IN  [exc    |-> IF chamou /\ o.exc # "none" THEN o.exc
                    ELSE IF chamou /\ Len(dados) < 4 THEN "segfault" ELSE "none",
         data   |-> dados,
         parsed |-> FALSE,
         ret    |-> chamou /\ o.ret,
         send   |-> publica,
         out    |-> IF publica
                    THEN <<[payload |-> to_csv(dados), ok |-> enviado]>>
                    ELSE <<>>]

\* A variant of the pass that clears parsed only when sendto succeeded,
\* so that a record whose datagram failed is sent again by the next pass
\* over a line that is not empty.
loop_passo_repete_falha(linha, o, enviado) ==
    LET chamou   == linha # <<>> /\ find(linha, GGA)
        parsed1  == IF chamou THEN TRUE ELSE parsed
        dados    == IF chamou THEN o.data ELSE last_data_given
        publica  == linha # <<>> /\ parsed1 /\ Len(dados) >= 4
    IN  [exc    |-> IF chamou /\ o.exc # "none" THEN o.exc
                    ELSE IF linha # <<>> /\ parsed1 /\ ~publica THEN "segfault"
                    ELSE "none",
         data   |-> dados,
         parsed |-> IF publica THEN ~enviado ELSE parsed1,
         ret    |-> chamou /\ o.ret,
         send   |-> publica,
         out    |-> IF publica
                    THEN <<[payload |-> to_csv(dados), ok |-> enviado]>>
                    ELSE <<>>]

\* What one pass of GPSTrack::loop does with the line read, for one
\* outcome o of parsing and one outcome enviado of sendto.
loop_passo(linha, o, enviado) ==
    LET chamou   == linha # <<>> /\ find(linha, GGA)
        falhou   == chamou /\ o.exc # "none"
        parsed1  == IF chamou THEN TRUE ELSE parsed
        dados    == IF chamou THEN o.data ELSE last_data_given
        semDados == linha # <<>> /\ parsed1 /\ Len(dados) < 4
        publica  == linha # <<>> /\ parsed1 /\ ~semDados
    IN  [exc    |-> IF falhou THEN o.exc ELSE IF semDados THEN "segfault" ELSE "none",
         data   |-> dados,
         parsed |-> IF publica THEN FALSE ELSE parsed1,
         ret    |-> chamou /\ o.ret,
         send   |-> publica,
         out    |-> IF publica
                    THEN <<[payload |-> to_csv(dados), ok |-> enviado]>>
                    ELSE <<>>]

\* The effect r of a pass on the state.
loop_efeito(r, enviado) ==
    /\ r.send \/ enviado
    /\ enviado \/ nfaults < MaxFaults
    /\ nfaults' = IF enviado THEN nfaults ELSE nfaults + 1
    /\ IF r.exc # "none"
       THEN /\ crash' = r.exc
            /\ UNCHANGED <<pc, mensagem, parsed, last_data_given, sent, iter>>
       ELSE /\ pc' = [pc EXCEPT !["acq"] = "sleep"]
            /\ mensagem' = <<>>
            /\ parsed' = r.parsed
            /\ last_data_given' = r.data
            /\ sent' = sent \o r.out
            /\ iter' = [done  |-> TRUE,
                        vazia |-> mensagem = <<>>,
                        ret   |-> r.ret,
                        pub   |-> r.out # <<>>,
                        mudou |-> r.data # last_data_given,
                        tipo  |-> Tipo(mensagem)]
            /\ UNCHANGED crash

\* The body of the while of GPSTrack::loop, after read_serial.
loop ==
    /\ crash = "none" /\ wvariant = "GPSTrack" /\ pc["acq"] = "process"
    /\ \E o \in parsing(0, split(mensagem, ",")), enviado \in BOOLEAN :
          loop_efeito(loop_passo(mensagem, o, enviado), enviado)
    /\ UNCHANGED <<confVars, is_exec, worker, cpc, calls, closed, buffer,
                   rx, nframes, nticks, starts, ups, downs, stopped, ultimo, ret_running>>

\* std::this_thread::sleep_for at the end of a pass (GPSTrack::loop).  The
\* sleeps are counted where the acquisition runs beside the simulator.
loop_sleep ==
    /\ crash = "none" /\ pc["acq"] = "sleep"
    /\ pc' = [pc EXCEPT !["acq"] = "while"]
    /\ npassos' = IF cenario = "ritmo" THEN npassos + 1 ELSE npassos
    /\ UNCHANGED <<ctxVars, trajVars, acesso, obj, is_exec, worker, cpc, calls, closed,
                   loopVars, envVars, crash, histVars>>

\* What one pass of TrackSense::_loop does with the bytes read: the
\* outcome [exc, data, fim] of the parser it calls.
_loop_passo(linha, data) ==
    IF linha = <<>> THEN [exc |-> "none", fim |-> FALSE, data |-> data]
    ELSE IF find(linha, RMC) THEN _parser_rmc(linha, data)
    ELSE IF find(linha, GGA) THEN _parser_gga(linha, data)
    ELSE [exc |-> "none", fim |-> FALSE, data |-> data]

\* The effect r of a pass on the state.
_loop_efeito(r) ==
    /\ last_data_given' = r.data
    /\ IF r.exc # "none"
       THEN /\ crash' = r.exc
            /\ UNCHANGED <<pc, mensagem, iter>>
       ELSE /\ pc' = [pc EXCEPT !["acq"] = "while"]
            /\ mensagem' = <<>>
            /\ iter' = [done  |-> TRUE,
                        vazia |-> mensagem = <<>>,
                        ret   |-> r.fim,
                        pub   |-> FALSE,
                        mudou |-> r.data # last_data_given,
                        tipo  |-> Tipo(mensagem)]
            /\ UNCHANGED crash

\* The body of the while of TrackSense::_loop, after _ler_dados.  The
\* record is written to the standard output; nothing goes to the socket.
_loop ==
    /\ crash = "none" /\ wvariant = "TrackSense" /\ pc["acq"] = "process"
    /\ _loop_efeito(_loop_passo(mensagem, last_data_given))
    /\ UNCHANGED <<confVars, is_exec, worker, cpc, calls, closed, buffer,
                   parsed, envVars, starts, ups, downs, stopped, ultimo, ret_running>>

\* What one pass of the simulator writes: GPSSim puts the RMC and the GGA
\* sentence of the simulated position in one write(); GPSSim_simples
\* writes the GGA sentence of the position it was constructed with.
saida ==
    IF svariant = "GPSSim"
    THEN _gerar_corpo_de_frase_rmc(tempo_utc, _lat_sim, _lon_sim, _velocidade_nos)
            \o _gerar_corpo_de_frase_gga(tempo_utc, _lat_sim, _lon_sim, _alt, 10, 8000)
    ELSE generate_gga(tempo_utc, ParaInt(_lat, SimUnit), ParaInt(_lon, SimUnit),
                      ParaInt(_alt, FieldUnit))

\* GPSSim::_loop, the write.
GPSSim_loop ==
    /\ crash = "none" /\ pc["sim"] = "write"
    /\ nticks < LimTicks
    /\ rx' = rx \o saida
    /\ pc' = [pc EXCEPT !["sim"] = "sleep"]
    /\ UNCHANGED <<confVars, is_exec, worker, cpc, calls, closed, loopVars,
                   sent, nframes, nfaults, nticks, crash, histVars>>

\* sin and cos of a whole number of quarter turns.
Seno(quartos) == <<0, 1, 0, 0 - 1>>[(quartos % 4) + 1]

Cosseno(quartos) == <<1, 0, 0 - 1, 0>>[(quartos % 4) + 1]

\* One metre of latitude is 1 / 111320 degree.
MetrosPorGrau == 111320

\* cos(_lat * M_PI / 180.0) for the latitude of the constructor, in
\* millionths.
CosLat == 920805

\* _raio / 111320.0 and the same over cos(_lat), in units of 1e-7 degree.
delta_lat_raio == RoundDiv(_raio * SimUnit, MetrosPorGrau)

delta_lon_raio == RoundDiv(delta_lat_raio * 100000, CosLat \div 10)

\* GPSSim::_update_position at t seconds: [lat, lon] of the simulated
\* position.  The angle is taken at whole quarter turns (the periods
\* tried are multiples of four ticks or divide them).
_update_position(t) ==
    IF ~_mov_circ THEN [lat |-> _lat_sim, lon |-> _lon_sim]
    ELSE [lat |-> _lat + Seno((4 * t) \div _periodo_circ) * delta_lat_raio,
          lon |-> _lon + Cosseno((4 * t) \div _periodo_circ) * delta_lon_raio]

\* GPSSim::_loop, sleep_for(_periodo_atualizacao) and _update_position
\* (GPSSim_simples only sleeps).
GPSSim_sleep ==
    /\ crash = "none" /\ pc["sim"] = "sleep"
    /\ nticks' = nticks + 1
    /\ pc' = [pc EXCEPT !["sim"] = "while"]
    /\ _lat_sim' = IF svariant = "GPSSim"
                   THEN _update_position(tempo_decorrido(nticks + 1)).lat ELSE _lat_sim
    /\ _lon_sim' = IF svariant = "GPSSim"
                   THEN _update_position(tempo_decorrido(nticks + 1)).lon ELSE _lon_sim
    /\ acesso' = IF svariant = "GPSSim"
                 THEN [acesso EXCEPT !.quem = "sim", !.durante = TRUE] ELSE acesso
    /\ UNCHANGED <<baseVars, obj, _mov_circ, _raio, _periodo_circ, is_exec, worker, cpc,
                   calls, closed, loopVars, rx, sent, nframes, nfaults, crash, histVars>>

\* GPSSim::config_traj, called by the owner: if( !_mov_circ ){ return; }
\* and then the three assignments.
config_traj(t, raio_metros, periodo_segundos) ==
    /\ crash = "none" /\ cpc[t] = Idle
    /\ Exists("sim") /\ svariant = "GPSSim" /\ closed["sim"] = 0 /\ NoDestructor("sim")
    /\ calls < LimCalls
    /\ calls' = calls + 1
    /\ _raio' = IF ~_mov_circ THEN _raio ELSE raio_metros
    /\ _periodo_circ' = IF ~_mov_circ THEN _periodo_circ ELSE periodo_segundos
    /\ _mov_circ' = IF ~_mov_circ THEN _mov_circ ELSE TRUE
    /\ ultimo' = Fez("config_traj", "sim", ~_mov_circ)
    /\ acesso' = [quem |-> t, durante |-> Running("sim"),
                  traj |-> <<raio_metros, periodo_segundos>>]
    /\ UNCHANGED <<baseVars, obj, _lat_sim, _lon_sim, is_exec, worker, pc, cpc, closed,
                   loopVars, envVars, crash, starts, ups, downs, stopped, ret_running, iter>>

Next ==
    \/ \E t \in callers, c \in Comp : init(t, c)
    \/ \E t \in callers, c \in Comp : init_thread(t, c)
    \/ \E t \in callers, c \in Comp : call_stop(t, c)
    \/ \E t \in callers, c \in Comp : stop_joinable(t, c)
    \/ \E t \in callers, c \in Comp : stop_join(t, c)
    \/ \E t \in callers, c \in Comp : destructor(t, c)
    \/ \E t \in callers, c \in Comp : destructor_close(t, c)
    \/ \E c \in Comp : loop_while(c)
    \/ \E frase \in Emitidas : DeviceWrite(frase)
    \/ read_serial
    \/ _ler_dados
    \/ loop
    \/ _loop
    \/ loop_sleep
    \/ GPSSim_loop
    \/ GPSSim_sleep

\* One thread owns the components.
Spec == Init /\ [][Next]_vars

\* Two threads call init and stop on the same components.
SpecRace == InitRace /\ [][Next]_vars

\* One thread owns the components, starts the acquisition and lets it run
\* on a longer stream of lines.
SpecFluxo == InitFluxo /\ [][Next]_vars

\* One thread owns the components; the device sends informative texts
\* only.
InitTexto == Construido({"main"}, "texto") /\ chamada = NoCall

SpecTexto == InitTexto /\ [][Next]_vars

\* The owner starts the acquisition of GPSTrack and a simulator on the
\* other side of a pseudo-terminal, and lets both run.  The work of a pass
\* takes no time and a sleep takes its second, so the clocks of the two
\* tasks, npassos and nticks, never differ by more than one sleep.
InitRitmo ==
    /\ Construido({"main"}, "ritmo")
    /\ wvariant = "GPSTrack"
    /\ porta_serial = "pty"
    /\ chamada = NoCall

NextRitmo ==
    \/ \E t \in callers, c \in Comp : init(t, c)
    \/ \E t \in callers, c \in Comp : init_thread(t, c)
    \/ \E c \in Comp : loop_while(c)
    \/ read_serial
    \/ loop
    \/ npassos < MaxPassos /\ npassos <= agora(nticks) /\ loop_sleep
    \/ GPSSim_loop
    \/ agora(nticks) <= npassos /\ GPSSim_sleep

SpecRitmo == InitRitmo /\ [][NextRitmo]_vars

\* The arguments config_traj is called with: the defaults, and a wider and
\* faster circle.
Trajetorias == {<<20, 120>>, <<50, 60>>}

\* The owner constructs a simulator and drives it: config_traj, init,
\* stop, the destructor.
InitSim ==
    /\ Construido({"main"}, "simulador")
    /\ porta_serial = "pty"
    /\ chamada = NoCall

NextSim ==
    \/ \E t \in callers : init(t, "sim")
    \/ \E t \in callers : init_thread(t, "sim")
    \/ \E t \in callers : call_stop(t, "sim")
    \/ \E t \in callers : stop_joinable(t, "sim")
    \/ \E t \in callers : stop_join(t, "sim")
    \/ \E t \in callers : destructor(t, "sim")
    \/ \E t \in callers : destructor_close(t, "sim")
    \/ \E t \in callers, traj \in Trajetorias : config_traj(t, traj[1], traj[2])
    \/ loop_while("sim")
    \/ GPSSim_loop
    \/ GPSSim_sleep

SpecSim == InitSim /\ [][NextSim]_vars

(***************************************************************************)
(* The constructors, step by step.  A step that fails makes the            *)
(* constructor throw std::runtime_error; the destructor of an object whose *)
(* constructor threw is not run.                                           *)
(***************************************************************************)
InitCtor ==
    /\ Construido({"main"}, "construcao")
    /\ chamada = NoCall

\* What a constructor step leaves alone.
ctorVars == <<baseVars, trajVars, acesso, lifeVars, loopVars, envVars, crash, histVars>>

\* GPSTrack::GPSTrack / TrackSense::TrackSense: sockfd = ::socket(...).
\* With the serial path of the simulator, the simulator is constructed
\* first.
ctor_socket(ok) ==
    /\ crash = "none" /\ obj["acq"].fase = "nada"
    /\ porta_serial = "pty" => obj["sim"].fase = "pronto"
    /\ obj' = IF ok THEN [obj EXCEPT !["acq"].fase = "socket", !["acq"].sockfd = "aberto"]
              ELSE [obj EXCEPT !["acq"].fase = "falhou"]
    /\ UNCHANGED ctorVars

\* open_serial: fd_serial = ::open(porta_serial, ...).
open_serial_open(ok) ==
    /\ crash = "none" /\ obj["acq"].fase = "socket"
    /\ obj' = IF ok THEN [obj EXCEPT !["acq"].fase = "open", !["acq"].fd_serial = "aberto"]
              ELSE [obj EXCEPT !["acq"].fase = "falhou"]
    /\ UNCHANGED ctorVars

\* open_serial: ::tcgetattr(fd_serial, &tty) != 0 throws.
open_serial_tcgetattr(ok) ==
    /\ crash = "none" /\ obj["acq"].fase = "open"
    /\ obj' = [obj EXCEPT !["acq"].fase = IF ok THEN "tcgetattr" ELSE "falhou"]
    /\ UNCHANGED ctorVars

\* open_serial: ::tcsetattr(fd_serial, TCSANOW, &tty) != 0 throws;
\* otherwise the constructor returns.
open_serial_tcsetattr(ok) ==
    /\ crash = "none" /\ obj["acq"].fase = "tcgetattr"
    /\ obj' = IF ok THEN [obj EXCEPT !["acq"].fase = "pronto", !["acq"].config = TRUE]
              ELSE [obj EXCEPT !["acq"].fase = "falhou"]
    /\ UNCHANGED ctorVars

\* GPSSim::GPSSim: ::openpty(&_fd_pai, &_fd_filho, ...) != 0 throws.
GPSSim_openpty(ok) ==
    /\ crash = "none" /\ porta_serial = "pty" /\ obj["sim"].fase = "nada"
    /\ obj' = IF ok THEN [obj EXCEPT !["sim"].fase = "openpty", !["sim"]._fd_pai = "aberto",
                                      !["sim"]._fd_filho = "aberto"]
              ELSE [obj EXCEPT !["sim"].fase = "falhou"]
    /\ UNCHANGED ctorVars

\* GPSSim::GPSSim: ::tcgetattr and tcsetattr on the child side, whose
\* results are not looked at, and ::close(_fd_filho).
GPSSim_termios(ok) ==
    /\ crash = "none" /\ obj["sim"].fase = "openpty"
    /\ obj' = [obj EXCEPT !["sim"].fase = "pronto", !["sim"].config = ok,
                          !["sim"]._fd_filho = close(@)]
    /\ UNCHANGED ctorVars

NextCtor ==
    \/ \E ok \in BOOLEAN : ctor_socket(ok)
    \/ \E ok \in BOOLEAN : open_serial_open(ok)
    \/ \E ok \in BOOLEAN : open_serial_tcgetattr(ok)
    \/ \E ok \in BOOLEAN : open_serial_tcsetattr(ok)
    \/ \E ok \in BOOLEAN : GPSSim_openpty(ok)
    \/ \E ok \in BOOLEAN : GPSSim_termios(ok)
    \/ \E t \in callers, c \in Comp : init(t, c)
    \/ \E t \in callers, c \in Comp : init_thread(t, c)
    \/ \E t \in callers, c \in Comp : call_stop(t, c)
    \/ \E t \in callers, c \in Comp : stop_joinable(t, c)
    \/ \E t \in callers, c \in Comp : stop_join(t, c)
    \/ \E t \in callers, c \in Comp : destructor(t, c)
    \/ \E t \in callers, c \in Comp : destructor_close(t, c)
    \/ \E c \in Comp : loop_while(c)

\* The objects are constructed, used and destroyed; the serial line stays
\* silent.
SpecCtor == InitCtor /\ [][NextCtor]_vars

(***************************************************************************)
(* The static functions, called on their own: split, the two directions    *)
(* of the coordinate conversion, and the framing of a sentence body.       *)
(***************************************************************************)
\* The texts of at most n characters of an alphabet.
Textos(alfabeto, n) == UNION {[1..k -> alfabeto] : k \in 0..n}

\* Fractions of a degree, in units of 1e-7: none, the smallest, one whose
\* minutes need a leading zero, the one of the simulated position, a half,
\* and those around the point where the minutes print as 60.0000.
Fracoes == {0, 1, 8, 166666, 1666667, 5000000, 9559000, 9999991, 9999992, 9999999}

\* Positions graus_decimais in range, in units of 1e-7 degree.
Latitudes ==
    {sinal * (graus * SimUnit + f) : sinal \in {1, 0 - 1}, graus \in {0, 22, 89}, f \in Fracoes}
        \cup {90 * SimUnit, 0 - 90 * SimUnit}

Longitudes ==
    {sinal * (graus * SimUnit + f) : sinal \in {1, 0 - 1}, graus \in {0, 43, 179}, f \in Fracoes}
        \cup {180 * SimUnit, 0 - 180 * SimUnit}

\* Numeric fields as a sentence carries them (ddmm.mmmm, dddmm.mmmm), the
\* empty field included.
CamposNumericos ==
    {<<>>,
     <<"4","8","0","7",".","0","3","8">>,
     <<"0","1","1","3","1",".","0","0","0">>,
     <<"2","2","5","7",".","3","5","4","0">>,
     <<"0","4","3","0","9",".","9","5","4","0">>,
     <<"0","0","0","0",".","0","0","0","6">>,
     <<"8","9","5","9",".","9","9","9","9">>,
     <<"1","8","0","0","0",".","0","0","0","0">>}

\* Hemisphere fields: the four letters, a lower-case one, another text and
\* the empty field.
CamposHemisferio == {<<"N">>, <<"S">>, <<"E">>, <<"W">>, <<"s">>, <<"X">>, <<>>}

\* Positions a simulator is constructed at, [lat, lon, alt]: latitude and
\* longitude in units of 1e-7 degree, altitude in units of 1e-4 m.
Posicoes ==
    {[lat |-> p[1], lon |-> p[2], alt |-> a] :
        p \in {<<_lat, _lon>>, <<0, 0>>, <<90 * SimUnit, 180 * SimUnit>>,
               <<0 - (89 * SimUnit + 9999999), 0 - (179 * SimUnit + 9999999)>>,
               <<22 * SimUnit + 5000000, 43 * SimUnit + 166666>>},
        a \in {_alt, 0, 12345, 88481234}}

\* The calls made: the function and its arguments.
Chamadas ==
    {[fn |-> f, arg |-> p, res |-> <<>>, feito |-> FALSE] :
        f \in {"_gerar_corpo_de_frase_gga", "generate_gga"}, p \in Posicoes}
    \cup
    {[fn |-> "decode", arg |-> [valor |-> v, hemisf |-> h], res |-> <<>>, feito |-> FALSE] :
        v \in CamposNumericos, h \in CamposHemisferio}
    \cup
    {[fn |-> "split", arg |-> t, res |-> <<>>, feito |-> FALSE] :
        t \in Textos({",", "a"}, MaxTexto) \cup DeviceFrames}
    \cup {[fn |-> "converter", arg |-> [graus_decimais |-> x, is_lat |-> TRUE],
           res |-> <<>>, feito |-> FALSE] : x \in Latitudes}
    \cup {[fn |-> "converter", arg |-> [graus_decimais |-> x, is_lat |-> FALSE],
           res |-> <<>>, feito |-> FALSE] : x \in Longitudes}
    \cup {[fn |-> f, arg |-> t, res |-> <<>>, feito |-> FALSE] :
            f \in {"finalizar_corpo_de_frase", "build_nmea_string"},
            t \in Textos({"A", "B", "G", ",", "1"}, MaxCorpo)}

InitCodec ==
    /\ Construido({"main"}, "estatico")
    /\ porta_serial = "tty"
    /\ chamada \in Chamadas

\* Everything but the call: the pipeline is not running.
pipeVars ==
    <<wvariant, porta_serial, callers, cenario, svariant, _start_time, npassos, trajVars, acesso,
      obj, lifeVars, loopVars, envVars, crash, histVars>>

\* split(string_de_entrada), with the default separator.
call_split ==
    /\ chamada.fn = "split" /\ ~chamada.feito
    /\ chamada' = [chamada EXCEPT !.res = split(chamada.arg, ","), !.feito = TRUE]
    /\ UNCHANGED pipeVars

\* The decoding of what converter_graus_para_nmea produced, by the
\* function of the acquisition class: [ddmm, hemisf, exc, dec], dec being
\* the text GPSTrack returns or the value (1e-6 degree) TrackSense returns.
decodificar(nmea) ==
    IF wvariant = "GPSTrack"
    THEN [ddmm |-> nmea.ddmm, hemisf |-> nmea.hemisf,
          exc  |-> converter_lat_lon(nmea.ddmm, <<nmea.hemisf>>).exc,
          dec  |-> converter_lat_lon(nmea.ddmm, <<nmea.hemisf>>).text]
    ELSE [ddmm |-> nmea.ddmm, hemisf |-> nmea.hemisf,
          exc  |-> converter_lat_long(nmea.ddmm, <<nmea.hemisf>>).exc,
          dec  |-> converter_lat_long(nmea.ddmm, <<nmea.hemisf>>).val]

\* converter_graus_para_nmea, and then the decoding of its output.
call_converter ==
    /\ chamada.fn = "converter" /\ ~chamada.feito
    /\ chamada' = [chamada EXCEPT
                      !.res = decodificar(converter_graus_para_nmea(
                                  chamada.arg.graus_decimais, chamada.arg.is_lat)),
                      !.feito = TRUE]
    /\ UNCHANGED pipeVars

\* The decoder of the acquisition class called on a numeric field and a
\* hemisphere field: [exc, dec], dec being the text GPSTrack returns or
\* the value (1e-6 degree) TrackSense returns.
decode(valor, hemisf) ==
    IF wvariant = "GPSTrack"
    THEN [exc |-> converter_lat_lon(valor, hemisf).exc,
          dec |-> converter_lat_lon(valor, hemisf).text]
    ELSE [exc |-> converter_lat_long(valor, hemisf).exc,
          dec |-> converter_lat_long(valor, hemisf).val]

call_decode ==
    /\ chamada.fn = "decode" /\ ~chamada.feito
    /\ chamada' = [chamada EXCEPT !.res = decode(chamada.arg.valor, chamada.arg.hemisf),
                                  !.feito = TRUE]
    /\ UNCHANGED pipeVars

\* The fix-data sentence a stationary simulator writes for the position
\* p: that of GPSSim (8 satellites, hdop 0.9 by default), or that of
\* GPSSim_simples, whose generator takes the position as whole numbers.
frase_gga(fn, p) ==
    IF fn = "_gerar_corpo_de_frase_gga"
    THEN _gerar_corpo_de_frase_gga(tempo_utc, p.lat, p.lon, p.alt, 8, 9000)
    ELSE generate_gga(tempo_utc, ParaInt(p.lat, SimUnit), ParaInt(p.lon, SimUnit),
                      ParaInt(p.alt, FieldUnit))

\* What the parser of the acquisition class makes of a line: [campos,
\* exc, data], campos being the number of elements split returns.
gga_decodificada(linha) ==
    IF wvariant = "GPSTrack"
    THEN {[campos |-> Len(split(linha, ",")), exc |-> o.exc, data |-> o.data] :
            o \in parsing(0, split(linha, ","))}
    ELSE {[campos |-> Len(split(linha, ",")),
           exc    |-> _parser_gga(linha, GPSDataInicial).exc,
           data   |-> _parser_gga(linha, GPSDataInicial).data]}

\* The sentence is generated and, its CR LF taken off by the read, parsed.
call_gga ==
    /\ chamada.fn \in {"_gerar_corpo_de_frase_gga", "generate_gga"} /\ ~chamada.feito
    /\ \E r \in gga_decodificada(SelectSeq(frase_gga(chamada.fn, chamada.arg), SemQuebra)) :
          chamada' = [chamada EXCEPT !.res = r, !.feito = TRUE]
    /\ UNCHANGED pipeVars

call_finalizar_corpo_de_frase ==
    /\ chamada.fn = "finalizar_corpo_de_frase" /\ ~chamada.feito
    /\ chamada' = [chamada EXCEPT !.res = finalizar_corpo_de_frase(chamada.arg),
                                  !.feito = TRUE]
    /\ UNCHANGED pipeVars

call_build_nmea_string ==
    /\ chamada.fn = "build_nmea_string" /\ ~chamada.feito
    /\ chamada' = [chamada EXCEPT !.res = build_nmea_string(chamada.arg),
                                  !.feito = TRUE]
    /\ UNCHANGED pipeVars

NextCodec ==
    \/ call_split
    \/ call_decode
    \/ call_gga
    \/ call_converter
    \/ call_finalizar_corpo_de_frase
    \/ call_build_nmea_string

\* The static functions are called; no thread is started.
SpecCodec == InitCodec /\ [][NextCodec]_vars

(***************************************************************************)
(* Properties                                                              *)
(***************************************************************************)
\* C1: with one owner, init calls that no stop separates construct one
\* thread only (the later calls return at the exchange), the thread handle
\* is never assigned while a thread is attached to it, and no more
\* datagrams are sent than lines were received.
C1_InitIdempotent ==
    /\ \A c \in Comp : starts[c] <= 1
    /\ crash # "thread_assign"
    /\ porta_serial = "tty" => Len(sent) <= nframes
    /\ porta_serial = "pty" => Len(sent) <= nticks + 1

\* A second init on the running acquisition class has returned at the
\* exchange, and the one thread goes on reading.
C1_Witness ==
    /\ ultimo = Fez("init", "acq", TRUE)
    /\ starts["acq"] = 1 /\ downs["acq"] = 0
    /\ Running("acq") /\ worker["acq"] = "joinable"

\* C2: with one owner, once a stop that cleared the flag has returned
\* (and until the next init) the thread of the component is gone: it has
\* left its loop and has been joined, so it reads and sends nothing more.
C2_StopJoins ==
    \A c \in Comp : stopped[c] => pc[c] = "none" /\ worker[c] = "none"

\* The acquisition class has read a line, stop has joined its thread, and
\* a later line stays unread in the serial queue.
C2_Witness ==
    /\ ultimo = Fez("stop", "acq", FALSE) /\ stopped["acq"]
    /\ iter.done /\ rx # <<>>

\* C4: a stop (the owner's or the destructor's) that finds the flag false
\* returns in that step and leaves the flag, the thread handle, the thread
\* and everything the thread works on as they were; and the flag has gone
\* from true to false at most once for each time it went from false to
\* true.
C4_StopIdempotent ==
    [][\A t \in callers, c \in Comp :
          /\ (call_stop(t, c) \/ destructor(t, c)) /\ ~is_exec[c]
                => /\ cpc'[t] = Returned(c, cpc'[t].op)
                   /\ UNCHANGED <<is_exec, worker, pc, closed, loopVars, envVars,
                                  crash, ups, downs>>
          /\ downs'[c] <= ups'[c] /\ ups'[c] <= downs'[c] + 1]_vars

\* The destructor runs after an explicit stop that joined the thread: its
\* own stop returned at the exchange and the descriptors were closed once.
C4_Witness ==
    /\ ultimo = Fez("destroy", "acq", TRUE)
    /\ ups["acq"] = 1 /\ downs["acq"] = 1
    /\ closed["acq"] = 1 /\ crash = "none"

\* C5: with one owner, whenever init has returned with the flag set (the
\* first time or after any stop) the component has exactly one thread,
\* attached to the handle and inside its loop, and constructing it never
\* met a handle still in use.
C5_Restartable ==
    \A c \in Comp :
        (is_exec[c] /\ \A t \in callers : cpc[t].at # "thread")
            => /\ worker[c] = "joinable" /\ Running(c)
               /\ starts[c] = 1

\* The acquisition class was started, stopped and started again, and the
\* thread of the second start has read a line.
C5_Witness ==
    /\ ups["acq"] = 2 /\ downs["acq"] = 1 /\ is_exec["acq"]
    /\ pc["acq"] = "process" /\ mensagem # <<>>

\* C3: with two threads calling init and stop on the same component, the
\* thread handle is never assigned or destroyed while a thread is attached
\* to it, never joined when none is, at most one thread is constructed per
\* start, and no stop returns while the thread of the component is still
\* in its loop.
C3_RaceFree ==
    /\ crash \notin {"thread_assign", "thread_destructor", "join_error"}
    /\ \A c \in Comp : starts[c] <= 1 /\ ~ret_running[c]

\* C6: a stop that waits in join for the acquisition thread never waits
\* for a thread that is itself waiting for a byte of a silent serial line.
C6_StopNeedsNoByte ==
    \A t \in callers :
        (cpc[t].at = "join" /\ cpc[t].comp = "acq")
            => ~(pc["acq"] = "read" /\ rx = <<>> /\ sent = <<>> /\ nframes = 0)

\* C7: a failed read() of the serial descriptor does not end the process.
C7_ReadErrorContained == crash # "runtime_error"

\* C8: no exception of a numeric conversion leaves the parser and ends the
\* process.
C8_ConversionContained == crash \notin {"invalid_argument", "out_of_range"}

\* C9: a pass of the acquisition loop sends a datagram exactly when the
\* line it read was not empty and the parser it ran succeeded.
C9_PublishIffParsed ==
    iter.done => (iter.pub <=> (~iter.vazia /\ iter.ret))

\* C10: a pass of the acquisition loop (GPSTrack::loop or
\* TrackSense::_loop) whose line is empty leaves the fix record as it was,
\* sends nothing, raises nothing, and ends with the thread on its way to
\* the next test of the loop.
C10_EmptyFrame ==
    [][((loop \/ _loop) /\ mensagem = <<>>)
          => /\ last_data_given' = last_data_given
             /\ sent' = sent
             /\ crash' = "none"
             /\ pc'["acq"] \in {"sleep", "while"}]_vars

\* A pass on an empty line has just ended, after a line had been decoded
\* into the fix record.
C10_Witness ==
    /\ iter.done /\ iter.vazia
    /\ pc["acq"] \in {"sleep", "while"}
    /\ last_data_given \notin {<<>>, GPSDataInicial}

C12_ShortFrameNoOp ==
    [][((loop \/ _loop)
            /\ \/ Tipo(mensagem) = "GGA" /\ Len(Campos(mensagem)) < 10
               \/ Tipo(mensagem) = "RMC" /\ Len(Campos(mensagem)) < 8)
          => /\ last_data_given' = last_data_given
             /\ crash' = "none"
             /\ pc'["acq"] \in {"sleep", "while"}]_vars

C14_DecodesBothTypes ==
    [][((loop \/ _loop) /\ mensagem \in {F_GGA, F_RMC})
          => /\ crash' = "none" /\ iter'.ret /\ iter'.pub
             /\ IF wvariant = "GPSTrack"
                THEN last_data_given'[1] = Campos(mensagem)[2]
                ELSE last_data_given'.time_utc = Campos(mensagem)[2]]_vars

\* C15: split yields the fields of a text that is not empty as the
\* protocol numbers them: a text with k commas gives k + 1 elements,
\* element i being the text between the i-th and the next comma, empty or
\* not.
C15_SplitKeepsEmpty ==
    (chamada.fn = "split" /\ chamada.feito /\ chamada.arg # <<>>)
        => chamada.res = Campos(chamada.arg)

\* What a fix-data sentence with the fields c (c[1] the header, c[i + 1]
\* field i) leaves in the record of TrackSense: time from field 1, latitude
\* from 2-3, longitude from 4-5, satellites from 7, hdop from 8, altitude
\* from 9; speed as it was.
fix_data_TrackSense(c, data) ==
    [time_utc |-> c[2],
     lat      |-> converter_lat_long(c[3], c[4]).val,
     lon      |-> converter_lat_long(c[5], c[6]).val,
     vel      |-> data.vel,
     alt      |-> stod(c[10]).val,
     sat      |-> stoi(c[8]).val,
     hdop     |-> stod(c[9]).val]

\* The same for the record of GPSTrack, which holds time, latitude,
\* longitude and altitude as texts.
fix_data_GPSTrack(c) ==
    <<c[2], converter_lat_lon(c[3], c[4]).text, converter_lat_lon(c[5], c[6]).text, c[10]>>

\* C16: a pass of the acquisition loop that ends without an exception on
\* a fix-data line of at least 10 fields leaves in the record the time of
\* field 1, the latitude of fields 2-3, the longitude of fields 4-5, the
\* satellites of field 7, the hdop of field 8 and the altitude of field 9
\* (in GPSTrack: the four of them its record holds).
C16_FixDataFields ==
    [][((loop \/ _loop) /\ crash' = "none"
            /\ Tipo(mensagem) = "GGA" /\ Len(Campos(mensagem)) >= 10)
          => IF wvariant = "TrackSense"
             THEN last_data_given' = fix_data_TrackSense(Campos(mensagem), last_data_given)
             ELSE last_data_given' = fix_data_GPSTrack(Campos(mensagem))]_vars

\* What a minimum-navigation sentence with the fields c leaves in the
\* record of TrackSense: time from field 1, latitude from 3-4, longitude
\* from 5-6, speed from the knots of field 7; the other fields as they
\* were.
min_nav_TrackSense(c, data) ==
    [time_utc |-> c[2],
     lat      |-> converter_lat_long(c[4], c[5]).val,
     lon      |-> converter_lat_long(c[6], c[7]).val,
     vel      |-> NosParaMps(stod(c[8]).val),
     alt      |-> data.alt,
     sat      |-> data.sat,
     hdop     |-> data.hdop]

\* C17: a pass of TrackSense::_loop that ends without an exception on a
\* minimum-navigation line of at least 8 fields leaves in the record the
\* time of field 1, the latitude of fields 3-4, the longitude of fields
\* 5-6 and, as speed, the knots of field 7 times 0.514 (22.4 knots give
\* 11.5136 m/s).
C17_MinNavFields ==
    [][(_loop /\ crash' = "none"
            /\ Tipo(mensagem) = "RMC" /\ Len(Campos(mensagem)) >= 8)
          => /\ last_data_given' = min_nav_TrackSense(Campos(mensagem), last_data_given)
             /\ mensagem = F_RMC => last_data_given'.vel = 115136]_vars

\* C18: every datagram given to sendto carries seven comma-separated
\* fields (time_utc, lat, lon, speed, altitude, satellites, hdop).
C18_SevenFieldDatagram ==
    \A i \in 1..Len(sent) : Len(Campos(sent[i].payload)) = 7

\* The value, in units of 1e-6 degree, of a text std::to_string(double)
\* produced: an optional sign, the whole part, the point and six digits.
valor_do_texto(t) ==
    LET neg == t # <<>> /\ t[1] = "-"
        p   == IF neg THEN 2 ELSE 1
        ni  == DigitRun(t, p)
        v   == DigitsValue(t, p, ni) * DegUnit + DigitsValue(t, p + ni + 1, 6)
    IN  IF neg THEN 0 - v ELSE v

\* C19: for every latitude in [-90, 90] and longitude in [-180, 180] of
\* the set tried, decoding the text and the hemisphere that
\* converter_graus_para_nmea produced raises nothing and gives the
\* position back to within 1e-4 degree (1000 units of 1e-7 degree), with
\* the decoder of GPSTrack as with that of TrackSense.
C19_RoundTrip ==
    (chamada.fn = "converter" /\ chamada.feito)
        => /\ chamada.res.exc = "none"
           /\ Abs(10 * (IF wvariant = "GPSTrack"
                        THEN valor_do_texto(chamada.res.dec)
                        ELSE chamada.res.dec)
                    - chamada.arg.graus_decimais) <= 1000

\* The latitude 22.9999999 was encoded, its minutes printed as 60.0000,
\* and decoded.
C19_Witness ==
    /\ chamada.fn = "converter" /\ chamada.feito
    /\ chamada.arg.graus_decimais = 229999999
    /\ chamada.res.ddmm = <<"2","2","6","0",".","0","0","0","0">>
    /\ chamada.res.hemisf = "N"

\* The exclusive-or of two bytes, bit by bit.
xor_de_bytes(a, b) ==
    LET Bit(n, k) == (n \div (2 ^ k)) % 2
        Soma[k \in 0..8] ==
            IF k = 8 THEN 0
            ELSE ((Bit(a, k) + Bit(b, k)) % 2) * (2 ^ k) + Soma[k + 1]
    IN  Soma[0]

\* The running exclusive-or of the bytes of a text, first to last.
RECURSIVE xor_corrido(_)
xor_corrido(b) ==
    IF b = <<>> THEN 0
    ELSE xor_de_bytes(xor_corrido(SubSeq(b, 1, Len(b) - 1)), Ord(b[Len(b)]))

\* The value of an uppercase hexadecimal digit, 16 for any other
\* character.
valor_hex(c) ==
    IF \E i \in 1..16 : HexDigits[i] = c
    THEN (CHOOSE i \in 1..16 : HexDigits[i] = c) - 1
    ELSE 16

\* C20: for every body b tried, finalizar_corpo_de_frase(b) and
\* build_nmea_string(b) are '$', b, '*', exactly two uppercase hexadecimal
\* digits whose value is the exclusive-or of all the bytes of b, CR and
\* LF, and nothing else.
C20_Wrap ==
    (chamada.fn \in {"finalizar_corpo_de_frase", "build_nmea_string"} /\ chamada.feito)
        => /\ Len(chamada.res) = Len(chamada.arg) + 6
           /\ chamada.res[1] = "$"
           /\ SubSeq(chamada.res, 2, Len(chamada.arg) + 1) = chamada.arg
           /\ chamada.res[Len(chamada.arg) + 2] = "*"
           /\ valor_hex(chamada.res[Len(chamada.arg) + 3]) < 16
           /\ valor_hex(chamada.res[Len(chamada.arg) + 4]) < 16
           /\ 16 * valor_hex(chamada.res[Len(chamada.arg) + 3])
                 + valor_hex(chamada.res[Len(chamada.arg) + 4]) = xor_corrido(chamada.arg)
           /\ chamada.res[Len(chamada.arg) + 5] = CR
           /\ chamada.res[Len(chamada.arg) + 6] = LF

\* The body "AB", whose parity 0x03 is below 0x10, was framed as
\* "$AB*03" CR LF.
C20_Witness ==
    /\ chamada.fn = "finalizar_corpo_de_frase" /\ chamada.feito
    /\ chamada.arg = <<"A", "B">>
    /\ chamada.res = <<"$", "A", "B", "*", "0", "3", CR, LF>>

\* s without its first n elements.
Resto(s, n) == SubSeq(s, n + 1, Len(s))

\* The line is handed over from the head of the input queue: the bytes up
\* to the first line feed (GPSTrack, less CR and LF) or the first k bytes
\* (TrackSense) left the queue and became the line.
TiradoDaFrente(fila, fila2, resto, linha) ==
    \E k \in 1..Len(fila) :
        /\ fila2 = Resto(fila, k)
        /\ IF wvariant = "GPSTrack"
           THEN /\ fila[k] = LF /\ \A j \in 1..(k - 1) : fila[j] # LF
                /\ linha = resto \o SelectSeq(SubSeq(fila, 1, k - 1), NaoCR)
           ELSE linha = SubSeq(fila, 1, k)

\* C21: the serial line is a queue with one consumer.  What the receiver
\* writes goes to the tail and what the worker reads leaves the head, so a
\* line written before another is handed to the loop before it; a line
\* handed to the loop is held for one pass and then dropped, so none is
\* processed twice; a datagram is added at the end of what was sent, at
\* most one per pass, and it is made from the line of that pass.
C21_ArrivalOrder ==
    [][/\ rx' # rx =>
            \/ Len(rx') > Len(rx) /\ SubSeq(rx', 1, Len(rx)) = rx
            \/ \E k \in 1..Len(rx) : rx' = Resto(rx, k)
       /\ (mensagem' # mensagem /\ mensagem' # <<>>) =>
            /\ mensagem = <<>> /\ pc["acq"] = "read" /\ pc'["acq"] = "process"
            /\ TiradoDaFrente(rx, rx', buffer, mensagem')
            /\ sent' = sent /\ last_data_given' = last_data_given
       /\ (mensagem # <<>> /\ mensagem' # mensagem) =>
            mensagem' = <<>> /\ pc["acq"] = "process" /\ rx' = rx
       /\ sent' # sent =>
            /\ mensagem # <<>> /\ mensagem' = <<>>
            /\ Len(sent') = Len(sent) + 1
            /\ SubSeq(sent', 1, Len(sent)) = sent
            /\ \E o \in parsing(0, split(mensagem, ",")) :
                    o.exc = "none" /\ Len(o.data) >= 4
                    /\ sent'[Len(sent')].payload = to_csv(o.data)]_vars

\* F_GGA and then F_GGA_NAN were written; both were read, and the
\* datagram of the first was sent before the datagram of the second.
C21_Witness ==
    /\ wvariant = "GPSTrack" /\ nframes = 2 /\ rx = <<>> /\ mensagem = <<>>
    /\ Len(sent) = 2
    /\ \E o \in parsing(0, split(F_GGA, ",")) : sent[1].payload = to_csv(o.data)
    /\ \E o \in parsing(0, split(F_GGA_NAN, ",")) : sent[2].payload = to_csv(o.data)
    /\ sent[1].payload # sent[2].payload

\* The lines of a block of bytes: the texts that end at each line feed,
\* less the carriage returns.
Linhas(bytes) ==
    LET EhLF(i) == bytes[i] = LF
        cortes  == SelectSeq([i \in 1..Len(bytes) |-> i], EhLF)
    IN  [k \in 1..Len(cortes) |->
            SelectSeq(SubSeq(bytes, IF k = 1 THEN 1 ELSE cortes[k - 1] + 1, cortes[k] - 1),
                      NaoCR)]

\* The position the simulator holds: the simulated one (GPSSim), the one
\* it was constructed with (GPSSim_simples).
posicao_atual ==
    IF svariant = "GPSSim" THEN [lat |-> _lat_sim, lon |-> _lon_sim]
    ELSE [lat |-> _lat, lon |-> _lon]

\* The four position fields of a sentence for the position p.
campos_de_posicao(p) ==
    << converter_graus_para_nmea(p.lat, TRUE).ddmm,
       <<converter_graus_para_nmea(p.lat, TRUE).hemisf>>,
       converter_graus_para_nmea(p.lon, FALSE).ddmm,
       <<converter_graus_para_nmea(p.lon, FALSE).hemisf>> >>

\* The bytes w are one RMC line and then one GGA line, both for the
\* position p, and nothing else.
ParDeFrases(w, p) ==
    /\ w # <<>> /\ w[Len(w)] = LF
    /\ Len(Linhas(w)) = 2
    /\ Tipo(Linhas(w)[1]) = "RMC" /\ Tipo(Linhas(w)[2]) = "GGA"
    /\ Len(Campos(Linhas(w)[1])) >= 7 /\ Len(Campos(Linhas(w)[2])) >= 6
    /\ SubSeq(Campos(Linhas(w)[1]), 4, 7) = campos_de_posicao(p)
    /\ SubSeq(Campos(Linhas(w)[2]), 3, 6) = campos_de_posicao(p)

\* C22: every pass of a running simulator adds to the transmit side, in
\* one write, one RMC sentence and right after it one GGA sentence, both
\* made from the position the simulator holds at that pass.
C22_TickWritesPair ==
    [][(pc["sim"] = "write" /\ pc'["sim"] = "sleep")
          => /\ Len(rx') > Len(rx) /\ SubSeq(rx', 1, Len(rx)) = rx
             /\ ParDeFrases(Resto(rx', Len(rx)), posicao_atual)]_vars

\* C24: when config_traj returns, the circular motion is on with the
\* radius and the period it was given, and the tick that follows such a
\* call puts the simulated position on the circle, away from the base
\* position.
C24_ConfigTrajEnables ==
    [][/\ ultimo'.op = "config_traj" =>
            _mov_circ' /\ <<_raio', _periodo_circ'>> = acesso'.traj
       /\ (ultimo.op = "config_traj" /\ nticks' = nticks + 1) =>
            <<_lat_sim', _lon_sim'>> # <<_lat, _lon>>]_vars

\* How far the simulated position is from the position the track started
\* at, in units of 1e-7 degree (latitude and longitude added).
afastamento == Abs(_lat_sim - _lat) + Abs(_lon_sim - _lon)

C25_TaskOwnsState ==
    [][/\ (acesso' # acesso /\ acesso'.quem \in callers) => ~Running("sim")
       /\ last_data_given' # last_data_given => pc["acq"] = "process"]_vars

\* The descriptors a component holds until its destructor: the socket and
\* the serial port, or the parent side of the pseudo-terminal.
Descritores(c) ==
    IF c = "acq" THEN {obj[c].sockfd, obj[c].fd_serial} ELSE {obj[c]._fd_pai}

\* C26: the descriptors of a constructed component stay open until its
\* destructor closes them, which it does once, when no thread is attached
\* to the component any more: a component whose descriptors are closed has
\* no thread that could read or write them, and a thread that is running
\* has its descriptors open.
C26_ReleasedOnceAfterJoin ==
    \A c \in Comp :
        Exists(c) =>
            /\ closed[c] <= 1
            /\ Descritores(c) = IF closed[c] = 0 THEN {"aberto"} ELSE {"fechado"}
            /\ closed[c] = 1 => worker[c] = "none" /\ pc[c] = "none" /\ ~is_exec[c]
            /\ Running(c) => Descritores(c) = {"aberto"}
            /\ (\E t \in callers : cpc[t] = At("close", c, "destroy")) =>
                    worker[c] = "none" /\ pc[c] = "none"

\* The acquisition object was started, sent a datagram, was stopped and
\* destroyed: its socket and its serial port are closed.
C26_Witness ==
    /\ closed["acq"] = 1 /\ ups["acq"] = 1 /\ downs["acq"] = 1 /\ crash = "none"
    /\ obj["acq"].sockfd = "fechado" /\ obj["acq"].fd_serial = "fechado"
    /\ Len(sent) = 1

\* C29: a constructor that failed left the component with no descriptor
\* open and no thread, and a constructor that returned applied the line
\* configuration.
C29_AllOrNothing ==
    \A c \in Comp :
        /\ obj[c].fase = "falhou" =>
                /\ "aberto" \notin Descritores(c)
                /\ worker[c] = "none" /\ pc[c] = "none"
        /\ obj[c].fase = "pronto" => obj[c].config

\* The steps a pass of the acquisition loop is made of, in the order the
\* thread takes them once the loop test is behind it; the last two are
\* the exit of the loop and the end of the thread at the join.
PassosDoLaco ==
    {<<"read", "process">>, <<"process", "sleep">>, <<"process", "while">>,
     <<"sleep", "while">>, <<"while", "exited">>, <<"exited", "none">>}

\* C27: once stop() has cleared the flag, the acquisition thread only goes
\* forward through the pass it is in and then leaves the loop: the loop
\* test never leads to another read, so at most one more line is taken
\* from the port (only by the read of that pass) and at most one more
\* datagram is sent (only by the processing of that pass).
C27_OneIterationBound ==
    [][~is_exec["acq"] =>
          /\ pc'["acq"] # pc["acq"] => <<pc["acq"], pc'["acq"]>> \in PassosDoLaco
          /\ Len(rx') < Len(rx) => pc["acq"] = "read"
          /\ sent' # sent => /\ pc["acq"] = "process" /\ pc'["acq"] = "sleep"
                             /\ Len(sent') = Len(sent) + 1]_vars

\* stop() has cleared the flag and is waiting at the join while the thread
\* is in the middle of a pass: the line was read and nothing was sent yet.
C27_Witness ==
    /\ wvariant = "GPSTrack" /\ ~is_exec["acq"] /\ pc["acq"] = "process"
    /\ cpc["main"] = At("join", "acq", "stop")
    /\ mensagem = F_GGA /\ sent = <<>> /\ crash = "none"

\* The datagram the step has handed to sendto.
ultimo_datagrama == sent'[Len(sent')]

\* C28: a datagram whose sendto failed (send returns false) ends nothing:
\* the thread goes on to the sleep and the next pass, the record keeps the
\* values parsed from the line, and the record is not sent a second time:
\* parsed is cleared whatever send returned, and every datagram comes from
\* a GGA line handled by the pass that sends it.
C28_FailedSendNotFatal ==
    [][sent' # sent =>
          /\ Len(sent') = Len(sent) + 1 /\ SubSeq(sent', 1, Len(sent)) = sent
          /\ pc["acq"] = "process" /\ find(mensagem, GGA)
          /\ \E o \in parsing(0, split(mensagem, ",")) :
                /\ o.exc = "none" /\ Len(o.data) >= 4
                /\ ultimo_datagrama.payload = to_csv(o.data)
                /\ last_data_given' = o.data
          /\ ~parsed'
          /\ ~ultimo_datagrama.ok =>
                /\ crash' = "none" /\ pc'["acq"] = "sleep"
                /\ is_exec' = is_exec /\ worker' = worker]_vars

\* The datagram of the first line failed; the loop went on, read the
\* second line and sent its datagram, the record being that of the second
\* line.
C28_Witness ==
    /\ wvariant = "GPSTrack" /\ crash = "none" /\ Len(sent) = 2
    /\ ~sent[1].ok /\ sent[2].ok /\ sent[1].payload # sent[2].payload
    /\ Len(last_data_given) >= 4 /\ to_csv(last_data_given) = sent[2].payload
    /\ ~parsed /\ pc["acq"] = "sleep"

\* The line ends in '*' and two characters, and they are not the checksum
\* the simulator computes for the text between '$' and '*'.
SomaErrada(linha) ==
    /\ Len(linha) >= 4 /\ linha[1] = "$" /\ linha[Len(linha) - 2] = "*"
    /\ linha \o <<CR, LF>> # finalizar_corpo_de_frase(SubSeq(linha, 2, Len(linha) - 3))

\* C30: a pass of the acquisition loop on a line whose two checksum
\* characters are not the exclusive-or of the bytes between '$' and '*'
\* leaves the fix record as it was, sends nothing, and the thread goes on
\* to the next test of the loop.
C30_ChecksumMismatchSkipped ==
    [][((loop \/ _loop) /\ SomaErrada(mensagem))
          => /\ last_data_given' = last_data_given
             /\ sent' = sent
             /\ crash' = "none"
             /\ pc'["acq"] \in {"sleep", "while"}]_vars

\* The frame holds neither a carriage return nor a line feed.
SemCRLF(frame) == \A i \in 1..Len(frame) : frame[i] \notin {CR, LF}

\* C31: the frame a read hands to the pass holds no carriage return and no
\* line feed; when bytes were taken from the port it is what was buffered
\* and then the bytes up to the first line feed, carriage returns left
\* out, the bytes after the line feed staying in the queue; when the read
\* reported zero bytes it is what was buffered so far.
C31_ReadFrame ==
    [][(pc["acq"] = "read" /\ pc'["acq"] = "process")
          => /\ SemCRLF(mensagem')
             /\ rx' # rx => TiradoDaFrente(rx, rx', buffer, mensagem')
             /\ rx' = rx => mensagem' = buffer]_vars

\* The line is one whole sentence as finalizar_corpo_de_frase writes it,
\* less the CR LF: '$', a body, '*' and the two digits of the checksum of
\* that body, with no second '$' and no line ending inside.
FraseInteira(linha) ==
    /\ Len(linha) >= 4 /\ SemCRLF(linha)
    /\ \A i \in 2..Len(linha) : linha[i] # "$"
    /\ linha \o <<CR, LF>> = finalizar_corpo_de_frase(SubSeq(linha, 2, Len(linha) - 3))

\* C32: with the simulator behind the port, every frame that is not empty
\* and that a read hands to the pass is one whole sentence of the
\* simulator less its CR LF: never two sentences, never a part of one.
C32_FrameIsOneSentence ==
    [][(porta_serial = "pty" /\ pc["acq"] = "read" /\ pc'["acq"] = "process"
            /\ mensagem' # <<>>)
          => FraseInteira(mensagem')]_vars

\* d (1e-6 degree, signed) is what the claim gives for the field value v
\* (units of 1e-4): whole degrees floor(v / 100), the rest taken as minutes
\* and divided by 60 (to the last digit kept), negative only for S and W
\* and always so when the value is not zero.
decode_esperado(v, d, hemisf) ==
    /\ Abs(60 * (Abs(d) - (v \div (100 * FieldUnit)) * DegUnit)
            - 100 * (v - (v \div (100 * FieldUnit)) * 100 * FieldUnit)) <= 30
    /\ d < 0 => hemisf \in {<<"S">>, <<"W">>}
    /\ (hemisf \in {<<"S">>, <<"W">>} /\ v > 0) => d < 0

\* C33: for a numeric field that is not empty, the decoders return the
\* whole degrees floor(value / 100) plus the remaining minutes over 60,
\* negated exactly when the hemisphere field is S or W; any other
\* hemisphere text, the empty one included, leaves the value as it is.
C33_DecodeFormula ==
    (chamada.fn = "decode" /\ chamada.feito /\ chamada.arg.valor # <<>>)
        => /\ chamada.res.exc = "none"
           /\ decode_esperado(stod(chamada.arg.valor).val,
                              IF wvariant = "GPSTrack"
                              THEN valor_do_texto(chamada.res.dec)
                              ELSE chamada.res.dec,
                              chamada.arg.hemisf)

\* GPSTrack has decoded 4807.038 S: 48 degrees and 7.038 / 60 of a
\* degree, negated.
C33_Witness ==
    /\ wvariant = "GPSTrack" /\ chamada.fn = "decode" /\ chamada.feito
    /\ chamada.arg = [valor |-> <<"4","8","0","7",".","0","3","8">>, hemisf |-> <<"S">>]
    /\ chamada.res.dec = <<"-","4","8",".","1","1","7","3","0","0">>

\* C34: for an empty numeric field the decoders raise nothing and return
\* the value 0: the number 0 in TrackSense, a text that reads as 0 in
\* GPSTrack, never the empty text.
C34_EmptyFieldDecodesToZero ==
    (chamada.fn = "decode" /\ chamada.feito /\ chamada.arg.valor = <<>>)
        => /\ chamada.res.exc = "none"
           /\ IF wvariant = "GPSTrack"
              THEN chamada.res.dec # <<>> /\ valor_do_texto(chamada.res.dec) = 0
              ELSE chamada.res.dec = 0

\* The text is w digits, two digits, a point and four digits.
FormatoGrausMinutos(ddmm, w) ==
    /\ Len(ddmm) = w + 7 /\ ddmm[w + 3] = "."
    /\ \A i \in (1..(w + 7)) \ {w + 3} : IsDigit(ddmm[i])

\* C35: for every position of the set tried (latitudes in [-90, 90],
\* longitudes in [-180, 180]) converter_graus_para_nmea gives N or E for a
\* value that is not negative and S or W for a negative one, and a text
\* made of the whole degrees of the absolute value in exactly 2 digits
\* (latitude) or 3 digits (longitude), then the minutes with two integer
\* digits, a point and four decimals.
C35_EncodeFormat ==
    (chamada.fn = "converter" /\ chamada.feito)
        => /\ chamada.res.hemisf =
                (IF chamada.arg.is_lat
                 THEN (IF chamada.arg.graus_decimais >= 0 THEN "N" ELSE "S")
                 ELSE (IF chamada.arg.graus_decimais >= 0 THEN "E" ELSE "W"))
           /\ FormatoGrausMinutos(chamada.res.ddmm, IF chamada.arg.is_lat THEN 2 ELSE 3)
           /\ DigitsValue(chamada.res.ddmm, 1, IF chamada.arg.is_lat THEN 2 ELSE 3)
                = Abs(chamada.arg.graus_decimais) \div SimUnit

\* The longitude -43.0166666 was encoded: three digits of degrees, the
\* minutes 1.0000 with their leading zero, hemisphere W.
C35_Witness ==
    /\ chamada.fn = "converter" /\ chamada.feito /\ ~chamada.arg.is_lat
    /\ chamada.arg.graus_decimais = 0 - (43 * SimUnit + 166666)
    /\ chamada.res.ddmm = <<"0","4","3","0","1",".","0","0","0","0">>
    /\ chamada.res.hemisf = "W"

\* C36: the type of a line is that of its header.  A pass of the
\* acquisition loop on a line whose header holds neither "GGA" nor "RMC"
\* treats it as unrecognised, whatever its later fields hold: the fix
\* record is left as it was, nothing is sent, nothing is raised.
C36_HeaderOnly ==
    [][((loop \/ _loop) /\ Tipo(mensagem) = "outro")
          => /\ last_data_given' = last_data_given
             /\ sent' = sent
             /\ crash' = "none"
             /\ pc'["acq"] \in {"sleep", "while"}]_vars

\* The number of characters after the decimal point of a text, 0 when it
\* has no point.
Decimais(texto) ==
    IF \E i \in 1..Len(texto) : texto[i] = "."
    THEN Len(texto) - (CHOOSE i \in 1..Len(texto) : texto[i] = ".")
    ELSE 0

\* C37: the line TrackSense makes of the record it holds after a pass has
\* seven fields: the latitude and the longitude with 6 decimals, the
\* speed with 2, the altitude with 1, the number of satellites without a
\* decimal point, the dilution with 1.
C37_FixedPrecision ==
    (wvariant = "TrackSense" /\ iter.done)
        => /\ Len(Campos(formatar_csv(last_data_given))) = 7
           /\ [k \in 2..7 |-> Decimais(Campos(formatar_csv(last_data_given))[k])]
                = [k \in 2..7 |-> <<6, 6, 6, 2, 1, 0, 1>>[k]]

\* C38: the time the simulated motion is computed from is the time since
\* the simulator was started: when init starts the thread the elapsed
\* time is zero, whatever ran before, and a tick taken with the motion on
\* emits the point of the circle for the time elapsed since that start.
C38_ElapsedSinceStart ==
    [][/\ (svariant = "GPSSim" /\ pc["sim"] = "none" /\ pc'["sim"] = "while")
            => tempo_decorrido(nticks') = 0
       /\ (svariant = "GPSSim" /\ nticks' = nticks + 1 /\ _mov_circ')
            => /\ _lat_sim' = _update_position(tempo_decorrido(nticks')).lat
               /\ _lon_sim' = _update_position(tempo_decorrido(nticks')).lon]_vars

\* The position and the altitude a decoded record holds, in the units of
\* Posicoes.
posicao_decodificada(data) ==
    IF wvariant = "GPSTrack"
    THEN [lat |-> 10 * valor_do_texto(data[2]), lon |-> 10 * valor_do_texto(data[3]),
          alt |-> stod(data[4]).val]
    ELSE [lat |-> 10 * data.lat, lon |-> 10 * data.lon, alt |-> data.alt]

\* d is within 1e-4 degree and 0.1 m of p.
Proximas(d, p) ==
    /\ Abs(d.lat - p.lat) <= 1000 /\ Abs(d.lon - p.lon) <= 1000
    /\ Abs(d.alt - p.alt) <= 1000

\* C39: for every position of the set tried, the fix-data sentence a
\* stationary simulator writes splits into at least 10 elements, is parsed
\* without an exception by the acquisition class, and gives a record whose
\* latitude and longitude are within 1e-4 degree and whose altitude is
\* within 0.1 m of what the simulator was constructed with.
C39_EndToEnd ==
    (chamada.fn \in {"_gerar_corpo_de_frase_gga", "generate_gga"} /\ chamada.feito)
        => /\ chamada.res.campos >= 10
           /\ chamada.res.exc = "none"
           /\ Proximas(posicao_decodificada(chamada.res.data), chamada.arg)

\* The line feeds among bytes: the sentences they hold.
Frases(bytes) == Cardinality({i \in 1..Len(bytes) : bytes[i] = LF})

\* C40: with the acquisition of GPSTrack (one line per pass, one second
\* between passes) reading from a simulator that writes once a second, and
\* no read failing, the sentences written and not yet read never exceed
\* those of two writes: the one the acquisition is working through and the
\* one the simulator, a sleep ahead, has just made.
C40_BacklogBounded == nfaults = 0 => Frases(rx) <= 2 * Frases(saida)
====
